---- MODULE Spec2Model ----
(***************************************************************************)
(* PQChub: the Python binding layer over the native PQC library.           *)
(*                                                                         *)
(* Three implementations of the binding live in the repository:            *)
(*   wrappers/python           Kyber*, Dilithium*, Falcon*   (impl "wrappers")*)
(*   examples/python/utils     MLKEM*, MLDSA*, Falcon*       (impl "classes") *)
(*   examples/python/pqchub.py Falcon*                       (impl "pqchub")  *)
(*                                                                         *)
(* A byte string is modelled by its length and by what it holds: the kind  *)
(* of value, the key / randomness / message it was derived from, the bit   *)
(* flipped in it (0: none), the length the value has when complete (full)  *)
(* and how many of its bytes are held (have); the other bytes are zero.    *)
(*                                                                         *)
(* The native library (PQClean, loaded through ctypes) is modelled from    *)
(* the specification of the engine: an ideal KEM with implicit rejection   *)
(* and an ideal signature scheme, reading and writing C buffers whose      *)
(* sizes are the library's own.                                            *)
(***************************************************************************)
EXTENDS Integers, Sequences, FiniteSets, TLC

\* ------------------------------------------------------------------ bounds
\* key pairs generated in one run
MaxKeys == 2
\* draws of fresh randomness (encapsulations, signatures) in one run
MaxRnd == 2
\* bits 1..MaxFlipBit of a byte string can be flipped
MaxFlipBit == 1

\* ------------------------------------------------------- parameter sets
SHARED_SECRET_BYTES == 32

KemClass(impl, base, name, pk, sk, ct, prefix) ==
    [impl |-> impl, base |-> base, name |-> name, family |-> "kem",
     PUBLIC_KEY_BYTES |-> pk, SECRET_KEY_BYTES |-> sk, CIPHERTEXT_BYTES |-> ct,
     SIGNATURE_BYTES |-> 0, FUNC_PREFIX |-> prefix]

SigClass(impl, base, name, pk, sk, sig, prefix) ==
    [impl |-> impl, base |-> base, name |-> name, family |-> "sig",
     PUBLIC_KEY_BYTES |-> pk, SECRET_KEY_BYTES |-> sk, CIPHERTEXT_BYTES |-> 0,
     SIGNATURE_BYTES |-> sig, FUNC_PREFIX |-> prefix]

\* wrappers/python/kyber.py
Kyber512 ==
    KemClass("wrappers", "BaseKyber", "Kyber512", 800, 1632, 768, "PQCLEAN_KYBER512_CLEAN")
Kyber768 ==
    KemClass("wrappers", "BaseKyber", "Kyber768", 1184, 2400, 1088, "PQCLEAN_KYBER768_CLEAN")
Kyber1024 ==
    KemClass("wrappers", "BaseKyber", "Kyber1024", 1568, 3168, 1568, "PQCLEAN_KYBER1024_CLEAN")
\* wrappers/python/dilithium.py
Dilithium2 ==
    SigClass("wrappers", "BaseDilithium", "Dilithium2", 1312, 2528, 2420, "PQCLEAN_DILITHIUM2_CLEAN")
Dilithium3 ==
    SigClass("wrappers", "BaseDilithium", "Dilithium3", 1952, 4000, 3293, "PQCLEAN_DILITHIUM3_CLEAN")
Dilithium5 ==
    SigClass("wrappers", "BaseDilithium", "Dilithium5", 2592, 4864, 4595, "PQCLEAN_DILITHIUM5_CLEAN")
\* wrappers/python/falcon.py
\* Faulty variant of Falcon512: the signature size classes.py declares.
Falcon512Agreeing ==
    SigClass("wrappers", "BaseFalcon", "Falcon512", 897, 1281, 752, "PQCLEAN_FALCON512_CLEAN")

Falcon512 ==
    SigClass("wrappers", "BaseFalcon", "Falcon512", 897, 1281, 690, "PQCLEAN_FALCON512_CLEAN")
Falcon1024 ==
    SigClass("wrappers", "BaseFalcon", "Falcon1024", 1793, 2305, 1330, "PQCLEAN_FALCON1024_CLEAN")
\* examples/python/utils/classes.py
MLKEM512 ==
    KemClass("classes", "MLKEM", "MLKEM512", 800, 1632, 768, "PQCLEAN_MLKEM512_CLEAN")
MLKEM768 ==
    KemClass("classes", "MLKEM", "MLKEM768", 1184, 2400, 1088, "PQCLEAN_MLKEM768_CLEAN")
MLKEM1024 ==
    KemClass("classes", "MLKEM", "MLKEM1024", 1568, 3168, 1568, "PQCLEAN_MLKEM1024_CLEAN")
MLDSA44 ==
    SigClass("classes", "MLDSA", "MLDSA44", 1312, 2560, 2420, "PQCLEAN_MLDSA44_CLEAN")
MLDSA65 ==
    SigClass("classes", "MLDSA", "MLDSA65", 1952, 4032, 3309, "PQCLEAN_MLDSA65_CLEAN")
MLDSA87 ==
    SigClass("classes", "MLDSA", "MLDSA87", 2592, 4896, 4627, "PQCLEAN_MLDSA87_CLEAN")
ExFalcon512 ==
    SigClass("classes", "ExFalcon", "Falcon512", 897, 1281, 752, "PQCLEAN_FALCON512_CLEAN")
ExFalcon1024 ==
    SigClass("classes", "ExFalcon", "Falcon1024", 1793, 2305, 1462, "PQCLEAN_FALCON1024_CLEAN")
\* examples/python/pqchub.py
HubFalcon512 ==
    SigClass("pqchub", "HubFalcon", "Falcon512", 897, 1281, 666, "PQCLEAN_FALCON512_CLEAN")
HubFalcon1024 ==
    SigClass("pqchub", "HubFalcon", "Falcon1024", 1793, 2305, 1280, "PQCLEAN_FALCON1024_CLEAN")

KemClasses == {Kyber512, Kyber768, Kyber1024, MLKEM512, MLKEM768, MLKEM1024}
SigClasses == {Dilithium2, Dilithium3, Dilithium5, Falcon512, Falcon1024,
               MLDSA44, MLDSA65, MLDSA87, ExFalcon512, ExFalcon1024,
               HubFalcon512, HubFalcon1024}
Classes == KemClasses \cup SigClasses

\* ---------------------------------------------------------- byte strings
\* typ:  the Python type ("bytes", "bytearray"; "buffer" for a ctypes array)
\* len:  the number of bytes
\* kind, key, rnd, msg, flip: the value held
\* full: the length of the complete value
\* have: how many bytes of the value are held; the other len - have are zero
Bytes(typ, len, kind, key, rnd, msg, flip, full, have) ==
    [typ |-> typ, len |-> len, kind |-> kind, key |-> key, rnd |-> rnd,
     msg |-> msg, flip |-> flip, full |-> full, have |-> have]

Min(a, b) == IF a <= b THEN a ELSE b

\* What the caller holds before any call: nothing.
NoBytes == Bytes("bytes", 0, "none", 0, 0, 0, 0, 0, 0)

\* A caller's buffer of arbitrary content.
Junk(typ, len) == Bytes(typ, len, "junk", 0, 0, 0, 0, len, len)

\* One bit of b flipped (same length, another value).
FlipBit(b, bit) == [b EXCEPT !.flip = bit]

\* The message of n bytes; a message is told from another by its length and
\* the bit flipped in it.
Message(n) == Bytes("bytes", n, "msg", 0, 0, n, 0, n, n)
NativeMsgId(m, mlen) == mlen * (MaxFlipBit + 1) + m.flip
MessageOfId(id) ==
    Bytes("bytes", id \div (MaxFlipBit + 1), "msg", 0, 0, id \div (MaxFlipBit + 1),
          id % (MaxFlipBit + 1), id \div (MaxFlipBit + 1), id \div (MaxFlipBit + 1))

\* The n bytes a native function reads from b are a complete value of n bytes.
Intact(b, n) == b.full = n /\ b.have = n

\* ------------------------------------------------------------ ctypes
\* ctypes.create_string_buffer(n): n zero bytes.
create_string_buffer(n) == Bytes("buffer", n, "zero", 0, 0, 0, 0, 0, 0)

\* ctypes.create_string_buffer(b): a copy of b and a terminating NUL.
create_string_buffer_init(b) == [b EXCEPT !.typ = "buffer", !.len = b.len + 1]

\* ctypes.c_char_p(b): a pointer to the bytes of b (a NUL follows them);
\* only a bytes object is taken.
c_char_p_ok(b) == b.typ = "bytes"
c_char_p(b) == [b EXCEPT !.typ = "buffer", !.len = b.len + 1]

\* Faulty variant of the slice: n bytes whatever the size of the array (as
\* ctypes.string_at(buf, n) gives).
SliceUnclamped(buf, n) ==
    [buf EXCEPT !.typ = "bytes", !.len = n, !.have = Min(buf.have, n)]

\* buf[:n] of a ctypes array or bytes: Python clamps the slice to the length.
Slice(buf, n) ==
    [buf EXCEPT !.typ = "bytes", !.len = Min(n, buf.len),
                !.have = Min(buf.have, Min(n, buf.len))]

\* bytes(buf): the whole array.
bytes(buf) == [buf EXCEPT !.typ = "bytes"]

\* ---------------------------------------------------- the native library
\* The sizes the library reads and writes.  The repository declares one value
\* for each key and ciphertext size of a function prefix, and several for the
\* maximum signature size of the Falcon prefixes: the library has one of them.
CRYPTO_PUBLICKEYBYTES(c) == c.PUBLIC_KEY_BYTES
CRYPTO_SECRETKEYBYTES(c) == c.SECRET_KEY_BYTES
CRYPTO_CIPHERTEXTBYTES(c) == c.CIPHERTEXT_BYTES
CRYPTO_SS_BYTES == SHARED_SECRET_BYTES
DeclaredSignatureBytes(prefix) ==
    {d.SIGNATURE_BYTES : d \in {e \in SigClasses : e.FUNC_PREFIX = prefix}}

\* The library's return codes.
NativeCodes == {0, -1}

\* A native function writes value v into the caller's buffer: it writes
\* v.full bytes whatever the size of the buffer.
NativeWrite(buf, v) ==
    [v EXCEPT !.typ = "buffer", !.len = buf.len, !.have = Min(v.full, buf.len)]
Overflows(buf, n) == n > buf.len
\* A native function reads n bytes from the caller's buffer.
OverReads(buf, n) == n > buf.len

ValidKey(c, b, kind) ==
    /\ b.kind = kind
    /\ b.flip = 0
    /\ b.key # 0
    /\ Intact(b, IF kind = "pk" THEN CRYPTO_PUBLICKEYBYTES(c) ELSE CRYPTO_SECRETKEYBYTES(c))
KeyOf(c, b, kind) == IF ValidKey(c, b, kind) THEN b.key ELSE 0

\* <prefix>_crypto_kem_keypair / <prefix>_crypto_sign_keypair(pk, sk): key pair
\* number k, or a failure of the entropy source (rc # 0, nothing written).
crypto_keypair(c, pk, sk, rc, k) ==
    IF rc # 0
    THEN [result |-> rc, ub |-> FALSE, pk |-> pk, sk |-> sk]
    ELSE [result |-> 0,
          ub |-> Overflows(pk, CRYPTO_PUBLICKEYBYTES(c)) \/ Overflows(sk, CRYPTO_SECRETKEYBYTES(c)),
          pk |-> NativeWrite(pk, Bytes("buffer", 0, "pk", k, 0, 0, 0, CRYPTO_PUBLICKEYBYTES(c), 0)),
          sk |-> NativeWrite(sk, Bytes("buffer", 0, "sk", k, 0, 0, 0, CRYPTO_SECRETKEYBYTES(c), 0))]

\* <prefix>_crypto_kem_enc(ct, ss, pk): with fresh randomness r, a ciphertext
\* for the key of pk and the shared secret derived from both.
crypto_kem_enc(c, ct, ss, pk, rc, r) ==
    LET ub == OverReads(pk, CRYPTO_PUBLICKEYBYTES(c)) IN
    IF rc # 0
    THEN [result |-> rc, ub |-> ub, ct |-> ct, ss |-> ss]
    ELSE [result |-> 0,
          ub |-> ub \/ Overflows(ct, CRYPTO_CIPHERTEXTBYTES(c)) \/ Overflows(ss, CRYPTO_SS_BYTES),
          ct |-> NativeWrite(ct, Bytes("buffer", 0, "ct", KeyOf(c, pk, "pk"), r, 0, 0,
                                       CRYPTO_CIPHERTEXTBYTES(c), 0)),
          ss |-> NativeWrite(ss, Bytes("buffer", 0, "ss", KeyOf(c, pk, "pk"), r, 0, 0,
                                       CRYPTO_SS_BYTES, 0))]

\* <prefix>_crypto_kem_dec(ss, ct, sk): the encapsulated secret when ct is a
\* ciphertext for the key of sk, and otherwise a decoy derived from sk and ct
\* (implicit rejection); the return code is 0 in both cases.
crypto_kem_dec(c, ss, ct, sk) ==
    LET k == KeyOf(c, sk, "sk")
        good == /\ ct.kind = "ct" /\ ct.flip = 0
                /\ Intact(ct, CRYPTO_CIPHERTEXTBYTES(c))
                /\ k # 0 /\ ct.key = k
        secret == IF good
                  THEN Bytes("buffer", 0, "ss", k, ct.rnd, 0, 0, CRYPTO_SS_BYTES, 0)
                  ELSE Bytes("buffer", 0, "decoy", k, ct.rnd, ct.key, ct.flip, CRYPTO_SS_BYTES, 0)
    IN [result |-> 0,
        ub |-> \/ OverReads(ct, CRYPTO_CIPHERTEXTBYTES(c))
               \/ OverReads(sk, CRYPTO_SECRETKEYBYTES(c))
               \/ Overflows(ss, CRYPTO_SS_BYTES),
        ss |-> NativeWrite(ss, secret)]

\* <prefix>_crypto_sign_signature(sig, &siglen, m, mlen, sk): with fresh
\* randomness rnd, a signature of n bytes (n varies from call to call, up to
\* the library's CRYPTO_BYTES), or a failure (rc # 0, nothing written).
crypto_sign_signature(c, sig, m, mlen, sk, rc, rnd, n) ==
    LET ub == OverReads(sk, CRYPTO_SECRETKEYBYTES(c)) \/ OverReads(m, mlen) IN
    IF rc # 0
    THEN [result |-> rc, ub |-> ub, sig |-> sig, siglen |-> 0]
    ELSE [result |-> 0,
          ub |-> ub \/ Overflows(sig, n),
          sig |-> NativeWrite(sig, Bytes("buffer", 0, "sig", KeyOf(c, sk, "sk"), rnd,
                                         NativeMsgId(m, mlen), 0, n, 0)),
          siglen |-> n]

\* <prefix>_crypto_sign_verify(sig, siglen, m, mlen, pk): 0 when the siglen
\* bytes are a complete, unmodified signature of the message under the key of
\* pk, and -1 otherwise.
crypto_sign_verify(c, sig, siglen, m, mlen, pk) ==
    LET good == /\ sig.kind = "sig" /\ sig.flip = 0
                /\ Intact(sig, siglen)
                /\ KeyOf(c, pk, "pk") # 0
                /\ sig.key = KeyOf(c, pk, "pk")
                /\ sig.msg = NativeMsgId(m, mlen)
    IN [result |-> IF good THEN 0 ELSE -1,
        ub |-> \/ OverReads(sig, siglen) \/ OverReads(m, mlen)
               \/ OverReads(pk, CRYPTO_PUBLICKEYBYTES(c))]

\* <prefix>_crypto_sign(sm, &smlen, m, mlen, sk): the signed message, a
\* signature of n bytes and the mlen bytes of the message.
crypto_sign(c, sm, m, mlen, sk, rc, rnd, n) ==
    LET ub == OverReads(sk, CRYPTO_SECRETKEYBYTES(c)) \/ OverReads(m, mlen) IN
    IF rc # 0
    THEN [result |-> rc, ub |-> ub, sm |-> sm, smlen |-> 0]
    ELSE [result |-> 0,
          ub |-> ub \/ Overflows(sm, n + mlen),
          sm |-> NativeWrite(sm, Bytes("buffer", 0, "sm", KeyOf(c, sk, "sk"), rnd,
                                       NativeMsgId(m, mlen), 0, n + mlen, 0)),
          smlen |-> n + mlen]

\* <prefix>_crypto_sign_open(m, &mlen, sm, smlen, pk): 0 and the message when
\* the smlen bytes are a complete, unmodified signed message under the key of
\* pk, and -1 otherwise.
crypto_sign_open(c, m, sm, smlen, pk) ==
    LET good == /\ sm.kind = "sm" /\ sm.flip = 0
                /\ Intact(sm, smlen)
                /\ KeyOf(c, pk, "pk") # 0
                /\ sm.key = KeyOf(c, pk, "pk")
        ub == OverReads(sm, smlen) \/ OverReads(pk, CRYPTO_PUBLICKEYBYTES(c))
    IN IF good
       THEN [result |-> 0,
             ub |-> ub \/ Overflows(m, MessageOfId(sm.msg).len),
             m |-> NativeWrite(m, MessageOfId(sm.msg)),
             mlen |-> MessageOfId(sm.msg).len]
       ELSE [result |-> -1, ub |-> ub, m |-> m, mlen |-> 0]

\* ------------------------------------------------- outcomes of a call
\* status: "returned", "raised" (exc names the exception) or "crashed" (the
\* process died of a memory error in the native call); out: the byte strings
\* returned; bool: the boolean returned by verify ("none" otherwise);
\* native: the native function was invoked; result: the code it returned (0
\* when it was not invoked or did not return); ub: it read or wrote outside a
\* buffer.
Outcome(status, exc, out, bool, native, result, ub) ==
    [status |-> status, exc |-> exc, out |-> out, bool |-> bool,
     native |-> native, result |-> result, ub |-> ub]
NoOutcome == Outcome("none", "", <<>>, "none", FALSE, 0, FALSE)
Raise(exc) == Outcome("raised", exc, <<>>, "none", FALSE, 0, FALSE)
RaiseAfterCall(exc, r) == Outcome("raised", exc, <<>>, "none", TRUE, r.result, r.ub)
Return(out, r) == Outcome("returned", "", out, "none", TRUE, r.result, r.ub)
ReturnBool(b, r) ==
    Outcome("returned", "", <<>>, IF b THEN "True" ELSE "False", TRUE, r.result, r.ub)
\* A native call that went outside a buffer may kill the process (crash) or
\* go on with what it read or wrote.
AfterCall(ub, crash, outcome) ==
    IF ub /\ crash THEN Outcome("crashed", "", <<>>, "none", TRUE, 0, TRUE) ELSE outcome

\* --------------------------------------------- wrappers/python/utils.py
ValidateOk == ""
TypeError == "TypeError"
ValueError == "ValueError"

validate_key_length(key, expected_length) ==
    IF key.typ \notin {"bytes", "bytearray"} THEN TypeError
    ELSE IF key.len # expected_length THEN ValueError
    ELSE ValidateOk

validate_message(message) ==
    IF message.typ \notin {"bytes", "bytearray"} THEN TypeError ELSE ValidateOk

\* --------------------------------------------- wrappers/python/kyber.py
BaseKyber_keypair(c, rc, k, crash) ==
    LET public_key == create_string_buffer(c.PUBLIC_KEY_BYTES)
        secret_key == create_string_buffer(c.SECRET_KEY_BYTES)
        r == crypto_keypair(c, public_key, secret_key, rc, k)
    IN AfterCall(r.ub, crash,
         IF r.result # 0
         THEN RaiseAfterCall("PQCKeyGenerationError", r)
         ELSE Return(<<bytes(r.pk), bytes(r.sk)>>, r))

\* Faulty variant of encapsulate: the two output buffers sized the other way
\* round.
EncapsulateSwappedBuffers(c, public_key, rc, rnd, crash) ==
    IF validate_key_length(public_key, c.PUBLIC_KEY_BYTES) # ValidateOk
    THEN Raise(validate_key_length(public_key, c.PUBLIC_KEY_BYTES))
    ELSE IF ~c_char_p_ok(public_key) THEN Raise(TypeError)
    ELSE
    LET ciphertext == create_string_buffer(SHARED_SECRET_BYTES)
        shared_secret == create_string_buffer(c.CIPHERTEXT_BYTES)
        r == crypto_kem_enc(c, ciphertext, shared_secret, c_char_p(public_key), rc, rnd)
    IN AfterCall(r.ub, crash,
         IF r.result # 0
         THEN RaiseAfterCall("PQCEncryptionError", r)
         ELSE Return(<<bytes(r.ct), bytes(r.ss)>>, r))

BaseKyber_encapsulate(c, public_key, rc, rnd, crash) ==
    IF validate_key_length(public_key, c.PUBLIC_KEY_BYTES) # ValidateOk
    THEN Raise(validate_key_length(public_key, c.PUBLIC_KEY_BYTES))
    ELSE IF ~c_char_p_ok(public_key) THEN Raise(TypeError)
    ELSE
    LET ciphertext == create_string_buffer(c.CIPHERTEXT_BYTES)
        shared_secret == create_string_buffer(SHARED_SECRET_BYTES)
        r == crypto_kem_enc(c, ciphertext, shared_secret, c_char_p(public_key), rc, rnd)
    IN AfterCall(r.ub, crash,
         IF r.result # 0
         THEN RaiseAfterCall("PQCEncryptionError", r)
         ELSE Return(<<bytes(r.ct), bytes(r.ss)>>, r))

\* Faulty variant of decapsulate: the test of the return code inverted.
DecapsulateInvertedCheck(c, ciphertext, secret_key, crash) ==
    IF validate_key_length(ciphertext, c.CIPHERTEXT_BYTES) # ValidateOk
    THEN Raise(validate_key_length(ciphertext, c.CIPHERTEXT_BYTES))
    ELSE IF validate_key_length(secret_key, c.SECRET_KEY_BYTES) # ValidateOk
    THEN Raise(validate_key_length(secret_key, c.SECRET_KEY_BYTES))
    ELSE IF ~c_char_p_ok(ciphertext) \/ ~c_char_p_ok(secret_key) THEN Raise(TypeError)
    ELSE
    LET shared_secret == create_string_buffer(SHARED_SECRET_BYTES)
        r == crypto_kem_dec(c, shared_secret, c_char_p(ciphertext), c_char_p(secret_key))
    IN AfterCall(r.ub, crash,
         IF r.result = 0
         THEN RaiseAfterCall("PQCDecryptionError", r)
         ELSE Return(<<bytes(r.ss)>>, r))

BaseKyber_decapsulate(c, ciphertext, secret_key, crash) ==
    IF validate_key_length(ciphertext, c.CIPHERTEXT_BYTES) # ValidateOk
    THEN Raise(validate_key_length(ciphertext, c.CIPHERTEXT_BYTES))
    ELSE IF validate_key_length(secret_key, c.SECRET_KEY_BYTES) # ValidateOk
    THEN Raise(validate_key_length(secret_key, c.SECRET_KEY_BYTES))
    ELSE IF ~c_char_p_ok(ciphertext) \/ ~c_char_p_ok(secret_key) THEN Raise(TypeError)
    ELSE
    LET shared_secret == create_string_buffer(SHARED_SECRET_BYTES)
        r == crypto_kem_dec(c, shared_secret, c_char_p(ciphertext), c_char_p(secret_key))
    IN AfterCall(r.ub, crash,
         IF r.result # 0
         THEN RaiseAfterCall("PQCDecryptionError", r)
         ELSE Return(<<bytes(r.ss)>>, r))

\* ------------------------- examples/python/utils/classes.py, MLKEM512/768/1024
MLKEM_keypair(c, rc, k, crash) ==
    LET pk == create_string_buffer(c.PUBLIC_KEY_BYTES)
        sk == create_string_buffer(c.SECRET_KEY_BYTES)
        r == crypto_keypair(c, pk, sk, rc, k)
    IN AfterCall(r.ub, crash,
         IF r.result # 0
         THEN RaiseAfterCall("Exception", r)
         ELSE Return(<<bytes(r.pk), bytes(r.sk)>>, r))

MLKEM_encapsulate(c, pk, rc, rnd, crash) ==
    IF pk.typ # "bytes" THEN Raise(TypeError)
    ELSE
    LET ct == create_string_buffer(c.CIPHERTEXT_BYTES)
        ss == create_string_buffer(SHARED_SECRET_BYTES)
        pk_buf == create_string_buffer_init(pk)
        r == crypto_kem_enc(c, ct, ss, pk_buf, rc, rnd)
    IN AfterCall(r.ub, crash,
         IF r.result # 0
         THEN RaiseAfterCall("Exception", r)
         ELSE Return(<<bytes(r.ct), bytes(r.ss)>>, r))

\* Faulty variant of decapsulate: the output buffer has the size of the
\* ciphertext.
DecapsulateCiphertextSizedSecret(c, ct, sk, crash) ==
    IF ct.typ # "bytes" \/ sk.typ # "bytes" THEN Raise(TypeError)
    ELSE
    LET ss == create_string_buffer(c.CIPHERTEXT_BYTES)
        ct_buf == create_string_buffer_init(ct)
        sk_buf == create_string_buffer_init(sk)
        r == crypto_kem_dec(c, ss, ct_buf, sk_buf)
    IN AfterCall(r.ub, crash,
         IF r.result # 0
         THEN RaiseAfterCall("Exception", r)
         ELSE Return(<<bytes(r.ss)>>, r))

MLKEM_decapsulate(c, ct, sk, crash) ==
    IF ct.typ # "bytes" \/ sk.typ # "bytes" THEN Raise(TypeError)
    ELSE
    LET ss == create_string_buffer(SHARED_SECRET_BYTES)
        ct_buf == create_string_buffer_init(ct)
        sk_buf == create_string_buffer_init(sk)
        r == crypto_kem_dec(c, ss, ct_buf, sk_buf)
    IN AfterCall(r.ub, crash,
         IF r.result # 0
         THEN RaiseAfterCall("Exception", r)
         ELSE Return(<<bytes(r.ss)>>, r))

\* ------------------------------------------ wrappers/python/dilithium.py
BaseDilithium_keypair(c, rc, k, crash) ==
    LET public_key == create_string_buffer(c.PUBLIC_KEY_BYTES)
        secret_key == create_string_buffer(c.SECRET_KEY_BYTES)
        r == crypto_keypair(c, public_key, secret_key, rc, k)
    IN AfterCall(r.ub, crash,
         IF r.result # 0
         THEN RaiseAfterCall("PQCKeyGenerationError", r)
         ELSE Return(<<bytes(r.pk), bytes(r.sk)>>, r))

\* Faulty variant of sign: the return code of the native call not tested.
SignSwallowsCode(c, message, secret_key, rc, rnd, n, crash) ==
    IF validate_message(message) # ValidateOk THEN Raise(validate_message(message))
    ELSE IF validate_key_length(secret_key, c.SECRET_KEY_BYTES) # ValidateOk
    THEN Raise(validate_key_length(secret_key, c.SECRET_KEY_BYTES))
    ELSE IF ~c_char_p_ok(message) \/ ~c_char_p_ok(secret_key) THEN Raise(TypeError)
    ELSE
    LET signature == create_string_buffer(c.SIGNATURE_BYTES)
        r == crypto_sign_signature(c, signature, c_char_p(message), message.len,
                                   c_char_p(secret_key), rc, rnd, n)
        actual_length == r.siglen
    IN AfterCall(r.ub, crash, Return(<<Slice(r.sig, actual_length)>>, r))

BaseDilithium_sign(c, message, secret_key, rc, rnd, n, crash) ==
    IF validate_message(message) # ValidateOk THEN Raise(validate_message(message))
    ELSE IF validate_key_length(secret_key, c.SECRET_KEY_BYTES) # ValidateOk
    THEN Raise(validate_key_length(secret_key, c.SECRET_KEY_BYTES))
    ELSE IF ~c_char_p_ok(message) \/ ~c_char_p_ok(secret_key) THEN Raise(TypeError)
    ELSE
    LET signature == create_string_buffer(c.SIGNATURE_BYTES)
        r == crypto_sign_signature(c, signature, c_char_p(message), message.len,
                                   c_char_p(secret_key), rc, rnd, n)
        actual_length == r.siglen
    IN AfterCall(r.ub, crash,
         IF r.result # 0
         THEN RaiseAfterCall("PQCSignatureError", r)
         ELSE Return(<<Slice(r.sig, actual_length)>>, r))

\* Faulty variant of verify: the signature validated like a key, to the
\* exact length SIGNATURE_BYTES.
VerifyValidatesSignatureLength(c, message, signature, public_key, crash) ==
    IF validate_message(message) # ValidateOk THEN Raise(validate_message(message))
    ELSE IF validate_key_length(public_key, c.PUBLIC_KEY_BYTES) # ValidateOk
    THEN Raise(validate_key_length(public_key, c.PUBLIC_KEY_BYTES))
    ELSE IF validate_key_length(signature, c.SIGNATURE_BYTES) # ValidateOk
    THEN Raise(validate_key_length(signature, c.SIGNATURE_BYTES))
    ELSE IF ~c_char_p_ok(signature) \/ ~c_char_p_ok(message) \/ ~c_char_p_ok(public_key)
    THEN Raise(TypeError)
    ELSE
    LET r == crypto_sign_verify(c, c_char_p(signature), signature.len,
                                c_char_p(message), message.len, c_char_p(public_key))
    IN AfterCall(r.ub, crash, ReturnBool(r.result = 0, r))

BaseDilithium_verify(c, message, signature, public_key, crash) ==
    IF validate_message(message) # ValidateOk THEN Raise(validate_message(message))
    ELSE IF validate_key_length(public_key, c.PUBLIC_KEY_BYTES) # ValidateOk
    THEN Raise(validate_key_length(public_key, c.PUBLIC_KEY_BYTES))
    ELSE IF signature.typ \notin {"bytes", "bytearray"} THEN Raise(TypeError)
    ELSE IF ~c_char_p_ok(signature) \/ ~c_char_p_ok(message) \/ ~c_char_p_ok(public_key)
    THEN Raise(TypeError)
    ELSE
    LET r == crypto_sign_verify(c, c_char_p(signature), signature.len,
                                c_char_p(message), message.len, c_char_p(public_key))
    IN AfterCall(r.ub, crash, ReturnBool(r.result = 0, r))

\* --------------------------------------------- wrappers/python/falcon.py
BaseFalcon_keypair(c, rc, k, crash) ==
    LET public_key == create_string_buffer(c.PUBLIC_KEY_BYTES)
        secret_key == create_string_buffer(c.SECRET_KEY_BYTES)
        r == crypto_keypair(c, public_key, secret_key, rc, k)
    IN AfterCall(r.ub, crash,
         IF r.result # 0
         THEN RaiseAfterCall("PQCKeyGenerationError", r)
         ELSE Return(<<bytes(r.pk), bytes(r.sk)>>, r))

BaseFalcon_sign(c, message, secret_key, rc, rnd, n, crash) ==
    IF validate_message(message) # ValidateOk THEN Raise(validate_message(message))
    ELSE IF validate_key_length(secret_key, c.SECRET_KEY_BYTES) # ValidateOk
    THEN Raise(validate_key_length(secret_key, c.SECRET_KEY_BYTES))
    ELSE IF ~c_char_p_ok(message) \/ ~c_char_p_ok(secret_key) THEN Raise(TypeError)
    ELSE
    LET signature == create_string_buffer(c.SIGNATURE_BYTES)
        r == crypto_sign_signature(c, signature, c_char_p(message), message.len,
                                   c_char_p(secret_key), rc, rnd, n)
        actual_length == r.siglen
    IN AfterCall(r.ub, crash,
         IF r.result # 0
         THEN RaiseAfterCall("PQCSignatureError", r)
         ELSE Return(<<Slice(r.sig, actual_length)>>, r))

\* Faulty variant of verify: a rejected signature raises the
\* PQCVerificationError the docstring announces.
VerifyRaisesOnFailure(c, message, signature, public_key, crash) ==
    IF validate_message(message) # ValidateOk THEN Raise(validate_message(message))
    ELSE IF validate_key_length(public_key, c.PUBLIC_KEY_BYTES) # ValidateOk
    THEN Raise(validate_key_length(public_key, c.PUBLIC_KEY_BYTES))
    ELSE IF signature.typ \notin {"bytes", "bytearray"} THEN Raise(TypeError)
    ELSE IF ~c_char_p_ok(signature) \/ ~c_char_p_ok(message) \/ ~c_char_p_ok(public_key)
    THEN Raise(TypeError)
    ELSE
    LET r == crypto_sign_verify(c, c_char_p(signature), signature.len,
                                c_char_p(message), message.len, c_char_p(public_key))
    IN AfterCall(r.ub, crash,
         IF r.result # 0
         THEN RaiseAfterCall("PQCVerificationError", r)
         ELSE ReturnBool(TRUE, r))

\* Faulty variant of verify: the return code taken as the boolean (0, the
\* library's success, is falsy).
VerifyBoolOfResult(c, message, signature, public_key, crash) ==
    IF validate_message(message) # ValidateOk THEN Raise(validate_message(message))
    ELSE IF validate_key_length(public_key, c.PUBLIC_KEY_BYTES) # ValidateOk
    THEN Raise(validate_key_length(public_key, c.PUBLIC_KEY_BYTES))
    ELSE IF signature.typ \notin {"bytes", "bytearray"} THEN Raise(TypeError)
    ELSE IF ~c_char_p_ok(signature) \/ ~c_char_p_ok(message) \/ ~c_char_p_ok(public_key)
    THEN Raise(TypeError)
    ELSE
    LET r == crypto_sign_verify(c, c_char_p(signature), signature.len,
                                c_char_p(message), message.len, c_char_p(public_key))
    IN AfterCall(r.ub, crash, ReturnBool(r.result # 0, r))

BaseFalcon_verify(c, message, signature, public_key, crash) ==
    IF validate_message(message) # ValidateOk THEN Raise(validate_message(message))
    ELSE IF validate_key_length(public_key, c.PUBLIC_KEY_BYTES) # ValidateOk
    THEN Raise(validate_key_length(public_key, c.PUBLIC_KEY_BYTES))
    ELSE IF signature.typ \notin {"bytes", "bytearray"} THEN Raise(TypeError)
    ELSE IF ~c_char_p_ok(signature) \/ ~c_char_p_ok(message) \/ ~c_char_p_ok(public_key)
    THEN Raise(TypeError)
    ELSE
    LET r == crypto_sign_verify(c, c_char_p(signature), signature.len,
                                c_char_p(message), message.len, c_char_p(public_key))
    IN AfterCall(r.ub, crash, ReturnBool(r.result = 0, r))

\* ------- examples/python/utils/classes.py, MLDSA44/65/87 and Falcon512/1024
Example_keypair(c, rc, k, crash) ==
    LET pk == create_string_buffer(c.PUBLIC_KEY_BYTES)
        sk == create_string_buffer(c.SECRET_KEY_BYTES)
        r == crypto_keypair(c, pk, sk, rc, k)
    IN AfterCall(r.ub, crash,
         IF r.result # 0
         THEN RaiseAfterCall("Exception", r)
         ELSE Return(<<bytes(r.pk), bytes(r.sk)>>, r))

Example_sign(c, message, sk, rc, rnd, n, crash) ==
    IF message.typ # "bytes" \/ sk.typ # "bytes" THEN Raise(TypeError)
    ELSE
    LET sm == create_string_buffer(message.len + c.SIGNATURE_BYTES)
        msg_buf == create_string_buffer_init(message)
        sk_buf == create_string_buffer_init(sk)
        r == crypto_sign(c, sm, msg_buf, message.len, sk_buf, rc, rnd, n)
    IN AfterCall(r.ub, crash,
         IF r.result # 0
         THEN RaiseAfterCall("Exception", r)
         ELSE Return(<<Slice(r.sm, r.smlen)>>, r))

Example_verify(c, signed_message, pk, crash) ==
    IF signed_message.typ # "bytes" \/ pk.typ # "bytes" THEN Raise(TypeError)
    ELSE
    LET m == create_string_buffer(signed_message.len)
        sm_buf == create_string_buffer_init(signed_message)
        pk_buf == create_string_buffer_init(pk)
        r == crypto_sign_open(c, m, sm_buf, signed_message.len, pk_buf)
    IN AfterCall(r.ub, crash,
         IF r.result # 0
         THEN RaiseAfterCall("Exception", r)
         ELSE Return(<<Slice(r.m, r.mlen)>>, r))

\* ----------------------------- examples/python/pqchub.py, Falcon512/1024
HubFalcon_keypair(c, rc, k, crash) ==
    LET pk == create_string_buffer(c.PUBLIC_KEY_BYTES)
        sk == create_string_buffer(c.SECRET_KEY_BYTES)
        r == crypto_keypair(c, pk, sk, rc, k)
    IN AfterCall(r.ub, crash,
         IF r.result # 0
         THEN RaiseAfterCall("Exception", r)
         ELSE Return(<<bytes(r.pk), bytes(r.sk)>>, r))

HubFalcon_sign(c, message, secret_key, rc, rnd, n, crash) ==
    IF secret_key.len # c.SECRET_KEY_BYTES THEN Raise(ValueError)
    ELSE IF message.typ # "bytes" \/ secret_key.typ # "bytes" THEN Raise(TypeError)
    ELSE
    LET signed == create_string_buffer(message.len + c.SIGNATURE_BYTES)
        r == crypto_sign(c, signed, create_string_buffer_init(message), message.len,
                         create_string_buffer_init(secret_key), rc, rnd, n)
    IN AfterCall(r.ub, crash,
         IF r.result # 0
         THEN RaiseAfterCall("Exception", r)
         ELSE Return(<<Slice(r.sm, r.smlen)>>, r))

HubFalcon_verify(c, signed_message, public_key, crash) ==
    IF public_key.len # c.PUBLIC_KEY_BYTES THEN Raise(ValueError)
    ELSE IF signed_message.typ # "bytes" \/ public_key.typ # "bytes" THEN Raise(TypeError)
    ELSE
    LET message == create_string_buffer(signed_message.len)
        r == crypto_sign_open(c, message, create_string_buffer_init(signed_message),
                              signed_message.len, create_string_buffer_init(public_key))
    IN AfterCall(r.ub, crash,
         IF r.result # 0
         THEN RaiseAfterCall("Exception", r)
         ELSE Return(<<Slice(r.m, r.mlen)>>, r))

\* ------------------------------------------------ a class's operations
keypair(c, rc, k, crash) ==
    CASE c.base = "BaseKyber" -> BaseKyber_keypair(c, rc, k, crash)
      [] c.base = "BaseDilithium" -> BaseDilithium_keypair(c, rc, k, crash)
      [] c.base = "BaseFalcon" -> BaseFalcon_keypair(c, rc, k, crash)
      [] c.base = "MLKEM" -> MLKEM_keypair(c, rc, k, crash)
      [] c.base \in {"MLDSA", "ExFalcon"} -> Example_keypair(c, rc, k, crash)
      [] c.base = "HubFalcon" -> HubFalcon_keypair(c, rc, k, crash)

encapsulate(c, pk, rc, rnd, crash) ==
    CASE c.base = "BaseKyber" -> BaseKyber_encapsulate(c, pk, rc, rnd, crash)
      [] c.base = "MLKEM" -> MLKEM_encapsulate(c, pk, rc, rnd, crash)

decapsulate(c, ct, sk, crash) ==
    CASE c.base = "BaseKyber" -> BaseKyber_decapsulate(c, ct, sk, crash)
      [] c.base = "MLKEM" -> MLKEM_decapsulate(c, ct, sk, crash)

sign(c, message, sk, rc, rnd, n, crash) ==
    CASE c.base = "BaseDilithium" -> BaseDilithium_sign(c, message, sk, rc, rnd, n, crash)
      [] c.base = "BaseFalcon" -> BaseFalcon_sign(c, message, sk, rc, rnd, n, crash)
      [] c.base \in {"MLDSA", "ExFalcon"} -> Example_sign(c, message, sk, rc, rnd, n, crash)
      [] c.base = "HubFalcon" -> HubFalcon_sign(c, message, sk, rc, rnd, n, crash)

\* verify(message, signature, public_key) of the wrapper package
verify(c, message, signature, pk, crash) ==
    CASE c.base = "BaseDilithium" -> BaseDilithium_verify(c, message, signature, pk, crash)
      [] c.base = "BaseFalcon" -> BaseFalcon_verify(c, message, signature, pk, crash)

\* verify(signed_message, public_key) of the example classes
open(c, signed_message, pk, crash) ==
    CASE c.base \in {"MLDSA", "ExFalcon"} -> Example_verify(c, signed_message, pk, crash)
      [] c.base = "HubFalcon" -> HubFalcon_verify(c, signed_message, pk, crash)

\* ------------------------------------------------------------ the state
VARIABLES
    cls,    \* the algorithm class in use
    lib,    \* the loaded native library: its maximum signature size
    kp,     \* the key pairs generated so far
    rng,    \* the number of draws of fresh randomness so far
    enc,    \* the last encapsulation: the public key, ciphertext, shared secret
    sgn,    \* the last signature: the message, secret key, signature
    prev,   \* the signature made just before the last one, when both are of
            \* the same message under the same secret key
    last,   \* the last call: operation, arguments, outcome
    pc,     \* "run", or "done" once the driver has ended
    thr,    \* concurrent invocations: each thread's position and locals
    heap,   \* the ctypes buffers allocated by the invocations in flight
    argtypes, \* the argtypes set on the library's function objects
    call,   \* one sign call followed through the library's signing loop
    env,    \* the host: its platform and the files on it
    global_lib, \* pqc._global_lib: 0 for None, or the number of a library
    libs,   \* the PQCLibrary instances created so far
    loads,  \* the number of ctypes.CDLL calls made so far
    objs,   \* the algorithm objects constructed so far
    lastc,  \* the last call to the loader: operation, argument, outcome
    cache,  \* the download cache of the examples and the calls made on it
    getters, \* the get_library calls of concurrent threads, step by step
    pqclean, \* scripts/download_pqclean.py: the output directory and the call
    build   \* scripts/build_native.py: the commands run and the call

driverVars == <<kp, enc, sgn, prev, last, pc>>
threadVars == <<thr, heap, argtypes>>
signVars == <<call>>
loaderVars == <<env, global_lib, libs, loads, objs, lastc>>
cacheVars == <<cache>>
toolVars == <<getters, pqclean, build>>
notToolVars == <<cls, lib, rng, driverVars, threadVars, signVars, cacheVars>>
vars == <<cls, lib, rng, driverVars, threadVars, signVars, loaderVars, cacheVars, toolVars>>
\* what the sequential driver, the threads, the sign call leave alone
asideVars == <<threadVars, signVars, loaderVars, cacheVars, toolVars>>
notThreadVars == <<driverVars, signVars, loaderVars, cacheVars, toolVars>>
notSignVars == <<driverVars, threadVars, loaderVars, cacheVars, toolVars>>
notLoaderVars == <<rng, driverVars, threadVars, signVars, cacheVars, toolVars>>

\* the message signed by test_algorithms
TEST_MESSAGE_LEN == 12

NoEnc == [pk |-> NoBytes, ct |-> NoBytes, ss |-> NoBytes]
NoSgn == [msg |-> NoBytes, sk |-> NoBytes, sig |-> NoBytes]

\* The library a process has loaded for the class it uses.
Libraries(c) ==
    IF c.family = "sig"
    THEN {[CRYPTO_BYTES |-> n] : n \in DeclaredSignatureBytes(c.FUNC_PREFIX)}
    ELSE {[CRYPTO_BYTES |-> 0]}

\* No call made yet by the sequential driver.
DriverIdle ==
    /\ kp = <<>>
    /\ enc = NoEnc
    /\ sgn = NoSgn
    /\ prev = NoSgn
    /\ last = [op |-> "init", args |-> <<>>, res |-> NoOutcome]

\* A thread that has invoked nothing: op, args are the invocation, bufs the
\* buffers it allocated, rc, draw, n the choices of the native call (return
\* code, randomness, signature length), r what the call returned, overlapped
\* whether another invocation was in flight during the call, res the outcome.
NoThread ==
    [pc |-> "idle", op |-> "", args |-> <<>>, bufs |-> <<>>, rc |-> 0, draw |-> 0,
     n |-> 0, r |-> [result |-> 0, ub |-> FALSE, siglen |-> 0],
     overlapped |-> FALSE, res |-> NoOutcome]
Operations == {"keypair", "encapsulate", "decapsulate", "sign", "verify"}
\* No thread started: a program that calls from its main thread only.
ThreadsIdle ==
    /\ thr = <<>>
    /\ heap = <<>>
    /\ argtypes = [op \in Operations |-> <<>>]

\* A sign call not made yet: args the arguments, attempts the candidates
\* the library has rejected, sig the method's signature buffer, r what the
\* native function returned, res the outcome of the method.
NoCall ==
    [pc |-> "idle", args |-> <<>>, attempts |-> 0, sig |-> NoBytes,
     r |-> [result |-> 0, ub |-> FALSE, siglen |-> 0], res |-> NoOutcome]
SignIdle == call = NoCall

\* The loader not followed: the library is the one already loaded.
NoLoaderCall ==
    [op |-> "", path |-> [none |-> TRUE, segs |-> <<>>], before |-> 0, loads_before |-> 0,
     exc |-> "", res |-> 0, missing |-> "", found |-> <<>>]
LoaderIdle ==
    /\ env = [host |-> <<"Linux", "x86_64">>, files |-> <<>>]
    /\ global_lib = 0
    /\ libs = <<>>
    /\ loads = 0
    /\ objs = <<>>
    /\ lastc = NoLoaderCall

\* The download cache not followed: the library is already on the host.
\* last is the last get_binary_path call: the cache before it, whether the
\* metadata request and the download went through, the number of metadata
\* and download requests it issued, and what it returned or raised.
NoCacheCall ==
    [op |-> "", before |-> <<>>, fetch |-> "", dl |-> "", fetched |-> 0, requested |-> 0,
     res |-> [status |-> "", ok |-> FALSE, is_new |-> FALSE, path |-> <<>>, exc |-> ""]]
NoCache ==
    [variant |-> "", host |-> <<>>, remote |-> <<>>, files |-> <<>>, calls |-> 0,
     last |-> NoCacheCall]
CacheIdle == cache = NoCache

\* No thread in get_library, no script run.
NoPqcleanCall ==
    [op |-> "", before |-> <<>>, force |-> FALSE, response |-> "", dl |-> "",
     ex |-> "", archive |-> <<>>, prompted |-> FALSE, removed |-> FALSE,
     requested |-> 0, status |-> "", value |-> FALSE, exc |-> ""]
NoPqclean == [out |-> <<>>, runs |-> 0, last |-> NoPqcleanCall]
NoBuild ==
    [pc |-> "idle", target |-> "", source |-> "", found |-> 0, n |-> 0, log |-> <<>>,
     dll |-> FALSE, status |-> "", value |-> FALSE, exc |-> ""]
GettersIdle == getters = <<>>
PqcleanIdle == pqclean = NoPqclean
BuildIdle == build = NoBuild

Init ==
    /\ cls \in Classes
    /\ lib \in Libraries(cls)
    /\ rng = 0
    /\ DriverIdle
    /\ pc = "run"
    /\ ThreadsIdle
    /\ SignIdle
    /\ LoaderIdle
    /\ CacheIdle
    /\ GettersIdle
    /\ PqcleanIdle
    /\ BuildIdle

\* ------------------------------------------------- what a caller passes
JunkInputs(n) ==
    {Junk("bytes", 0), Junk("bytes", n), Junk("bytes", n + 1), Junk("bytearray", n)}
Flips(b) == {FlipBit(b, bit) : bit \in 1 .. Min(MaxFlipBit, 8 * b.len)}
PkInputs == {kp[i].pk : i \in 1 .. Len(kp)} \cup JunkInputs(cls.PUBLIC_KEY_BYTES)
SkInputs == {kp[i].sk : i \in 1 .. Len(kp)} \cup JunkInputs(cls.SECRET_KEY_BYTES)
CtInputs ==
    (IF enc = NoEnc THEN {} ELSE {enc.ct} \cup Flips(enc.ct))
        \cup JunkInputs(cls.CIPHERTEXT_BYTES)
Messages == {Message(0), Message(TEST_MESSAGE_LEN)}
MsgInputs == Messages \cup {[Message(TEST_MESSAGE_LEN) EXCEPT !.typ = "bytearray"]}
SigInputs ==
    (IF sgn = NoSgn THEN {} ELSE {sgn.sig} \cup Flips(sgn.sig))
        \cup (IF prev = NoSgn THEN {} ELSE {prev.sig})
        \cup JunkInputs(cls.SIGNATURE_BYTES)
\* the signature lengths the library produces
NativeSigLens == {n \in DeclaredSignatureBytes(cls.FUNC_PREFIX) : n <= lib.CRYPTO_BYTES}

\* The driver goes on after a call that returned a key pair, a ciphertext or
\* a signature, and ends with the check of the result (decapsulate, verify),
\* with an exception, or with the death of the process.
After(op, res) ==
    IF res.status = "returned" /\ op \in {"keypair", "encapsulate", "sign"}
    THEN "run" ELSE "done"
Crashes(res) == IF res.ub THEN BOOLEAN ELSE {FALSE}

\* ------------------------------------------------------------- actions
Keypair ==
    /\ pc = "run"
    /\ Len(kp) < MaxKeys
    /\ \E rc \in NativeCodes :
       \E crash \in Crashes(keypair(cls, rc, Len(kp) + 1, FALSE)) :
         LET res == keypair(cls, rc, Len(kp) + 1, crash) IN
         /\ kp' = IF res.status = "returned"
                  THEN Append(kp, [pk |-> res.out[1], sk |-> res.out[2]])
                  ELSE kp
         /\ last' = [op |-> "keypair", args |-> <<>>, res |-> res]
         /\ pc' = After("keypair", res)
    /\ UNCHANGED <<cls, lib, rng, enc, sgn, prev, asideVars>>

Encapsulate ==
    /\ pc = "run"
    /\ cls.family = "kem"
    /\ rng < MaxRnd
    /\ \E pk \in PkInputs, rc \in NativeCodes :
       \E crash \in Crashes(encapsulate(cls, pk, rc, rng + 1, FALSE)) :
         LET res == encapsulate(cls, pk, rc, rng + 1, crash) IN
         /\ rng' = IF res.native THEN rng + 1 ELSE rng
         /\ enc' = IF res.status = "returned"
                   THEN [pk |-> pk, ct |-> res.out[1], ss |-> res.out[2]]
                   ELSE enc
         /\ last' = [op |-> "encapsulate", args |-> <<pk>>, res |-> res]
         /\ pc' = After("encapsulate", res)
    /\ UNCHANGED <<cls, lib, kp, sgn, prev, asideVars>>

Decapsulate ==
    /\ pc = "run"
    /\ cls.family = "kem"
    /\ \E ct \in CtInputs, sk \in SkInputs :
       \E crash \in Crashes(decapsulate(cls, ct, sk, FALSE)) :
         LET res == decapsulate(cls, ct, sk, crash) IN
         /\ last' = [op |-> "decapsulate", args |-> <<ct, sk>>, res |-> res]
         /\ pc' = After("decapsulate", res)
    /\ UNCHANGED <<cls, lib, kp, rng, enc, sgn, prev, asideVars>>

Sign ==
    /\ pc = "run"
    /\ cls.family = "sig"
    /\ rng < MaxRnd
    /\ \E message \in MsgInputs, sk \in SkInputs, rc \in NativeCodes, n \in NativeSigLens :
       \E crash \in Crashes(sign(cls, message, sk, rc, rng + 1, n, FALSE)) :
         LET res == sign(cls, message, sk, rc, rng + 1, n, crash) IN
         /\ rng' = IF res.native THEN rng + 1 ELSE rng
         /\ sgn' = IF res.status = "returned"
                   THEN [msg |-> message, sk |-> sk, sig |-> res.out[1]]
                   ELSE sgn
         /\ prev' = IF res.status # "returned" THEN prev
                    ELSE IF sgn.msg = message /\ sgn.sk = sk THEN sgn
                    ELSE NoSgn
         /\ last' = [op |-> "sign", args |-> <<message, sk>>, res |-> res]
         /\ pc' = After("sign", res)
    /\ UNCHANGED <<cls, lib, kp, enc, asideVars>>

Verify ==
    /\ pc = "run"
    /\ cls.family = "sig"
    /\ cls.impl = "wrappers"
    /\ \E message \in MsgInputs \cup Flips(sgn.msg), signature \in SigInputs, pk \in PkInputs :
       \E crash \in Crashes(verify(cls, message, signature, pk, FALSE)) :
         LET res == verify(cls, message, signature, pk, crash) IN
         /\ last' = [op |-> "verify", args |-> <<message, signature, pk>>, res |-> res]
         /\ pc' = After("verify", res)
    /\ UNCHANGED <<cls, lib, kp, rng, enc, sgn, prev, asideVars>>

Open ==
    /\ pc = "run"
    /\ cls.family = "sig"
    /\ cls.impl # "wrappers"
    /\ \E signed_message \in SigInputs, pk \in PkInputs :
       \E crash \in Crashes(open(cls, signed_message, pk, FALSE)) :
         LET res == open(cls, signed_message, pk, crash) IN
         /\ last' = [op |-> "verify", args |-> <<signed_message, pk>>, res |-> res]
         /\ pc' = After("verify", res)
    /\ UNCHANGED <<cls, lib, kp, rng, enc, sgn, prev, asideVars>>

Next == Keypair \/ Encapsulate \/ Decapsulate \/ Sign \/ Verify \/ Open

Spec == Init /\ [][Next]_vars

\* ------------------------------------------------------------ properties
Returned == last.res.status = "returned"
\* i is the key pair whose secret key made the last signature
SignedWith(i) == i \in 1 .. Len(kp) /\ sgn # NoSgn /\ sgn.sk = kp[i].sk
\* i is the key pair to whose public key the last encapsulation was made
EncapsulatedTo(i) == i \in 1 .. Len(kp) /\ enc # NoEnc /\ enc.pk = kp[i].pk

\* C1: for every KEM class, decapsulate(ct, sk) of the ciphertext returned by
\* encapsulate(pk), with the secret key of the same key pair, returns the
\* shared secret encapsulate returned.
C1_KemRoundTrip ==
    \A i \in 1 .. Len(kp) :
        (/\ last.op = "decapsulate"
         /\ EncapsulatedTo(i)
         /\ last.args = <<enc.ct, kp[i].sk>>)
        => (Returned /\ last.res.out = <<enc.ss>>)

C1_Witness ==
    /\ last.op = "decapsulate"
    /\ cls.name = "MLKEM768"
    /\ EncapsulatedTo(2)
    /\ last.args = <<enc.ct, kp[2].sk>>
    /\ last.res.out = <<enc.ss>>

\* C2: for every signature class of the wrapper package and every bytes
\* message m, the empty one included, verify(m, sign(m, sk), pk) with the
\* keys of one key pair returns True.
C2_SignatureRoundTrip ==
    \A i \in 1 .. Len(kp) :
        (/\ last.op = "verify"
         /\ cls.impl = "wrappers"
         /\ SignedWith(i)
         /\ last.args = <<sgn.msg, sgn.sig, kp[i].pk>>)
        => (Returned /\ last.res.bool = "True")

\* C3: for every example signature class, verify (open) of the signed
\* message returned by sign(m, sk), with the public key of the same key pair,
\* succeeds and returns exactly m.
C3_SignOpenRoundTrip ==
    \A i \in 1 .. Len(kp) :
        (/\ last.op = "verify"
         /\ cls.impl # "wrappers"
         /\ SignedWith(i)
         /\ last.args = <<sgn.sig, kp[i].pk>>)
        => (Returned /\ last.res.out = <<sgn.msg>>)

\* C4: keypair() returns a public key and a secret key of exactly the declared
\* lengths, and encapsulate(pk) a ciphertext of exactly the declared length
\* and a shared secret of exactly 32 bytes (Kyber512 and ML-KEM-512: 800,
\* 1632, 768 and 32 bytes).
C4_FixedOutputLengths ==
    /\ (last.op = "keypair" /\ Returned)
       => /\ Len(last.res.out) = 2
          /\ last.res.out[1].len = cls.PUBLIC_KEY_BYTES
          /\ last.res.out[2].len = cls.SECRET_KEY_BYTES
          /\ cls.name \in {"Kyber512", "MLKEM512"}
             => last.res.out[1].len = 800 /\ last.res.out[2].len = 1632
    /\ (last.op = "encapsulate" /\ Returned)
       => /\ Len(last.res.out) = 2
          /\ last.res.out[1].len = cls.CIPHERTEXT_BYTES
          /\ last.res.out[2].len = 32
          /\ cls.name \in {"Kyber512", "MLKEM512"} => last.res.out[1].len = 768

C4_Witness ==
    /\ cls.name = "Kyber512"
    /\ last.op = "encapsulate"
    /\ Returned
    /\ Len(kp) >= 1
    /\ last.args = <<kp[1].pk>>
    /\ kp[1].pk.len = 800
    /\ last.res.out[1].len = 768

\* C5: the value sign(m, sk) returns is at most SIGNATURE_BYTES bytes long in
\* the wrapper package and at most len(m) + SIGNATURE_BYTES bytes long in the
\* example classes, whatever length the native call reports.
C5_BoundedSignatureLength ==
    (last.op = "sign" /\ Returned)
    => /\ Len(last.res.out) = 1
       /\ last.res.out[1].len <=
              IF cls.impl = "wrappers" THEN cls.SIGNATURE_BYTES
              ELSE last.args[1].len + cls.SIGNATURE_BYTES

\* the native call reported more bytes than the buffer holds
C5_Witness ==
    /\ last.op = "sign"
    /\ Returned
    /\ cls.name = "Falcon512"
    /\ last.res.out[1].full > cls.SIGNATURE_BYTES
    /\ last.res.out[1].len = cls.SIGNATURE_BYTES

\* An argument of the last call is a key, ciphertext or signature buffer of
\* a length the class does not declare.
WrongLength ==
    CASE last.op = "encapsulate" -> last.args[1].len # cls.PUBLIC_KEY_BYTES
      [] last.op = "decapsulate" ->
            \/ last.args[1].len # cls.CIPHERTEXT_BYTES
            \/ last.args[2].len # cls.SECRET_KEY_BYTES
      [] last.op = "sign" -> last.args[2].len # cls.SECRET_KEY_BYTES
      [] last.op = "verify" /\ cls.impl = "wrappers" ->
            \/ last.args[2].len > cls.SIGNATURE_BYTES
            \/ last.args[3].len # cls.PUBLIC_KEY_BYTES
      [] last.op = "verify" /\ cls.impl # "wrappers" ->
            last.args[2].len # cls.PUBLIC_KEY_BYTES
      [] OTHER -> FALSE

\* C6: encapsulate, decapsulate, sign and verify reject a key, ciphertext or
\* signature buffer of the wrong length with an input-validation error before
\* the native function is invoked, and the process is not terminated.
C6_ValidationPrecedesNativeCall ==
    WrongLength
    => /\ last.res.status = "raised"
       /\ last.res.exc \in {ValueError, TypeError}
       /\ ~last.res.native

\* the last call is verify of the wrapper package on three bytes objects
VerifyOfBytes ==
    /\ last.op = "verify"
    /\ cls.impl = "wrappers"
    /\ \A j \in 1 .. 3 : last.args[j].typ = "bytes"

\* C7, as stated: for bytes message, signature and public key of any lengths,
\* verify returns a boolean and raises nothing.
C7_VerifyNeverRaises ==
    VerifyOfBytes => (Returned /\ last.res.bool \in {"True", "False"})

\* C7, amended: for a bytes message and signature of any lengths and a bytes
\* public key of exactly PUBLIC_KEY_BYTES bytes, verify of the wrapper package
\* returns a boolean and raises nothing, and the boolean is False when the
\* signature or the key is arbitrary content; with a public key of another
\* length it raises ValueError before the native call.
C7_VerifyNeverRaisesForSizedKey ==
    /\ (VerifyOfBytes /\ last.args[3].len = cls.PUBLIC_KEY_BYTES)
       => /\ Returned
          /\ last.res.bool \in {"True", "False"}
          /\ (last.args[2].kind = "junk" \/ last.args[3].kind = "junk")
             => last.res.bool = "False"
    /\ (VerifyOfBytes /\ last.args[3].len # cls.PUBLIC_KEY_BYTES)
       => /\ last.res.status = "raised"
          /\ last.res.exc = ValueError
          /\ ~last.res.native

C7_Witness ==
    /\ VerifyOfBytes
    /\ cls.name = "Dilithium3"
    /\ last.args[2] = Junk("bytes", cls.SIGNATURE_BYTES + 1)
    /\ last.args[3].kind = "pk"
    /\ Returned
    /\ last.res.bool = "False"

\* the native verification function was given a public key of the declared
\* length and returned a non-zero code
NativeRejects ==
    /\ last.op = "verify"
    /\ last.res.native
    /\ last.res.result # 0
    /\ last.args[Len(last.args)].len = cls.PUBLIC_KEY_BYTES

C9_ImplicitRejection ==
    \A i \in 1 .. Len(kp) :
        (/\ last.op = "decapsulate"
         /\ EncapsulatedTo(i)
         /\ last.args[1] \in Flips(enc.ct)
         /\ last.args[2] = kp[i].sk)
        => /\ Returned
           /\ Len(last.res.out) = 1
           /\ last.res.out[1].len = 32
           /\ last.res.out[1] # enc.ss

C9_Witness ==
    /\ last.op = "decapsulate"
    /\ cls.name = "Kyber768"
    /\ EncapsulatedTo(1)
    /\ last.args = <<FlipBit(enc.ct, 1), kp[1].sk>>
    /\ last.args[1].len = cls.CIPHERTEXT_BYTES
    /\ Returned
    /\ last.res.out[1].kind = "decoy"

\* the arguments of verify that differ from (m, s, pk), s = sign(m, sk) under
\* key pair i, in one bit of m, in one bit of s, or in the public key, taken
\* from another key pair
Tampered(i) ==
    {<<m, sgn.sig, kp[i].pk>> : m \in Flips(sgn.msg)}
        \cup {<<sgn.msg, s, kp[i].pk>> : s \in Flips(sgn.sig)}
        \cup {<<sgn.msg, sgn.sig, kp[j].pk>> : j \in (1 .. Len(kp)) \ {i}}

\* C10: for s = sign(m, sk) under key pair (pk, sk), verify of the wrapper
\* package returns False when one bit of s or of m is flipped, and when the
\* public key of a second key pair is given in place of pk.
C10_VerifyRejectsTampered ==
    \A i \in 1 .. Len(kp) :
        (/\ last.op = "verify"
         /\ cls.impl = "wrappers"
         /\ SignedWith(i)
         /\ last.args \in Tampered(i))
        => (Returned /\ last.res.bool = "False")

C10_Witness ==
    /\ last.op = "verify"
    /\ cls.name = "Falcon1024"
    /\ Len(kp) = 2
    /\ SignedWith(1)
    /\ Intact(sgn.sig, sgn.sig.len)
    /\ last.args = <<sgn.msg, sgn.sig, kp[2].pk>>
    /\ Returned
    /\ last.res.bool = "False"

\* the error each operation of the wrapper package raises for a failed
\* native call
OperationError(op) ==
    CASE op = "keypair" -> "PQCKeyGenerationError"
      [] op = "encapsulate" -> "PQCEncryptionError"
      [] op = "decapsulate" -> "PQCDecryptionError"
      [] op = "sign" -> "PQCSignatureError"

SignedTwiceWith(i) == SignedWith(i) /\ prev # NoSgn /\ prev.msg = sgn.msg /\ prev.sk = sgn.sk

\* the last call is a verify of signature s (of message m) with public key pk
\* that accepted it
Verifies(m, s, pk) ==
    IF cls.impl = "wrappers"
    THEN last.args = <<m, s, pk>> => (Returned /\ last.res.bool = "True")
    ELSE last.args = <<s, pk>> => (Returned /\ last.res.out = <<m>>)

\* C12: two sign() calls on the same message with the same secret key give
\* different signature bytes, and verify accepts both with the public key of
\* the key pair.
C12_RandomizedSigning ==
    \A i \in 1 .. Len(kp) :
        SignedTwiceWith(i)
        => /\ sgn.sig # prev.sig
           /\ last.op = "verify"
              => /\ Verifies(sgn.msg, sgn.sig, kp[i].pk)
                 /\ Verifies(prev.msg, prev.sig, kp[i].pk)

\* ------------------------------------- concurrent invocations (threads)
\* The wrapper package's operations, called from several threads of one
\* process on objects of one class. An invocation goes through its method
\* in four steps, and other threads run between them: it validates its
\* arguments and allocates its buffers, sets argtypes and restype on the
\* library's function object, calls the native function (ctypes releases the
\* interpreter lock for the call), and builds its result from its buffers.
NumThreads == 2
Threads == 1 .. NumThreads

\* the create_string_buffer calls of a method: the sizes of its buffers
BufferSizes(c, op) ==
    CASE op = "keypair" -> <<c.PUBLIC_KEY_BYTES, c.SECRET_KEY_BYTES>>
      [] op = "encapsulate" -> <<c.CIPHERTEXT_BYTES, SHARED_SECRET_BYTES>>
      [] op = "decapsulate" -> <<SHARED_SECRET_BYTES>>
      [] op = "sign" -> <<c.SIGNATURE_BYTES>>
      [] op = "verify" -> <<>>

\* Faulty variant of the allocation: buffers kept at module level and reused
\* by every invocation.
SharedBuffers(h, k) == [i \in 1 .. k |-> i]

\* Each create_string_buffer call makes a new buffer: k new places in memory.
NewBuffers(h, k) == [i \in 1 .. k |-> Len(h) + i]

\* memory once the buffers at places ids (ascending) are initialised
Allocate(h, ids, sizes) ==
    LET top == IF ids = <<>> \/ ids[Len(ids)] <= Len(h) THEN Len(h) ELSE ids[Len(ids)]
    IN [j \in 1 .. top |->
          IF \E i \in 1 .. Len(ids) : ids[i] = j
          THEN create_string_buffer(sizes[CHOOSE i \in 1 .. Len(ids) : ids[i] = j])
          ELSE h[j]]

\* the argtypes a method sets on its native function before the call
ArgTypes(op) ==
    CASE op = "keypair" -> <<"POINTER(c_ubyte)", "POINTER(c_ubyte)">>
      [] op \in {"encapsulate", "decapsulate"} ->
           <<"POINTER(c_ubyte)", "POINTER(c_ubyte)", "POINTER(c_ubyte)">>
      [] op = "sign" ->
           <<"POINTER(c_ubyte)", "POINTER(c_size_t)", "POINTER(c_ubyte)", "c_size_t",
             "POINTER(c_ubyte)">>
      [] op = "verify" ->
           <<"POINTER(c_ubyte)", "c_size_t", "POINTER(c_ubyte)", "c_size_t",
             "POINTER(c_ubyte)">>

\* The native call of a method: a the method's arguments, b its buffers.
NativeCall(c, op, a, b, rc, draw, n) ==
    CASE op = "keypair" ->
           LET r == crypto_keypair(c, b[1], b[2], rc, draw)
           IN [result |-> r.result, ub |-> r.ub, siglen |-> 0, out |-> <<r.pk, r.sk>>]
      [] op = "encapsulate" ->
           LET r == crypto_kem_enc(c, b[1], b[2], c_char_p(a[1]), rc, draw)
           IN [result |-> r.result, ub |-> r.ub, siglen |-> 0, out |-> <<r.ct, r.ss>>]
      [] op = "decapsulate" ->
           LET r == crypto_kem_dec(c, b[1], c_char_p(a[1]), c_char_p(a[2]))
           IN [result |-> r.result, ub |-> r.ub, siglen |-> 0, out |-> <<r.ss>>]
      [] op = "sign" ->
           LET r == crypto_sign_signature(c, b[1], c_char_p(a[1]), a[1].len,
                                          c_char_p(a[2]), rc, draw, n)
           IN [result |-> r.result, ub |-> r.ub, siglen |-> r.siglen, out |-> <<r.sig>>]
      [] op = "verify" ->
           LET r == crypto_sign_verify(c, c_char_p(a[2]), a[2].len,
                                       c_char_p(a[1]), a[1].len, c_char_p(a[3]))
           IN [result |-> r.result, ub |-> r.ub, siglen |-> 0, out |-> <<>>]

\* The end of a method: the test of the return code and the result built
\* from the method's buffers b.
Finish(op, b, r) ==
    IF op = "verify" THEN ReturnBool(r.result = 0, r)
    ELSE IF r.result # 0 THEN RaiseAfterCall(OperationError(op), r)
    ELSE IF op = "sign" THEN Return(<<Slice(b[1], r.siglen)>>, r)
    ELSE Return([i \in 1 .. Len(b) |-> bytes(b[i])], r)

\* What the same invocation gives when nothing runs between its steps.
Sequential(c, th) ==
    CASE th.op = "keypair" -> keypair(c, th.rc, th.draw, FALSE)
      [] th.op = "encapsulate" -> encapsulate(c, th.args[1], th.rc, th.draw, FALSE)
      [] th.op = "decapsulate" -> decapsulate(c, th.args[1], th.args[2], FALSE)
      [] th.op = "sign" -> sign(c, th.args[1], th.args[2], th.rc, th.draw, th.n, FALSE)
      [] th.op = "verify" -> verify(c, th.args[1], th.args[2], th.args[3], FALSE)

\* What the callers hold before the threads start: a key pair, a ciphertext
\* for it and a signature of the test message under it.
HeldKey == MaxRnd + 1
HeldKeys(c) == keypair(c, 0, HeldKey, FALSE).out
HeldCiphertext(c) == encapsulate(c, HeldKeys(c)[1], 0, HeldKey, FALSE).out[1]
HeldSignature(c) ==
    sign(c, Message(TEST_MESSAGE_LEN), HeldKeys(c)[2], 0, HeldKey,
         CHOOSE n \in NativeSigLens : \A m \in NativeSigLens : n <= m, FALSE).out[1]

ThreadOperations(c) ==
    IF c.family = "kem" THEN {"keypair", "encapsulate", "decapsulate"}
    ELSE {"keypair", "sign", "verify"}
ThreadArgs(c, op) ==
    CASE op = "keypair" -> {<<>>}
      [] op = "encapsulate" -> {<<HeldKeys(c)[1]>>, <<Junk("bytes", 0)>>}
      [] op = "decapsulate" -> {<<HeldCiphertext(c), HeldKeys(c)[2]>>}
      [] op = "sign" -> {<<Message(TEST_MESSAGE_LEN), HeldKeys(c)[2]>>}
      [] op = "verify" ->
           {<<m, HeldSignature(c), HeldKeys(c)[1]>> : m \in Messages}
\* the operations whose native function draws randomness
Draws(op) == op \in {"keypair", "encapsulate", "sign"}
InFlight(th) == th.pc \in {"allocated", "bound", "called"}
Buffers(h, th) == [i \in 1 .. Len(th.bufs) |-> h[th.bufs[i]]]

InitThreads ==
    /\ cls \in {c \in Classes : c.impl = "wrappers"}
    /\ lib \in Libraries(cls)
    /\ rng = 0
    /\ DriverIdle
    /\ pc = "done"
    /\ thr = [t \in Threads |-> NoThread]
    /\ heap = <<>>
    /\ argtypes = [op \in Operations |-> <<>>]
    /\ SignIdle
    /\ LoaderIdle
    /\ CacheIdle
    /\ GettersIdle
    /\ PqcleanIdle
    /\ BuildIdle

\* A thread calls a method: the validation of the arguments, and the
\* allocation of the method's buffers.
Invoke(t) ==
    /\ thr[t].pc = "idle"
    \* threads are numbered in the order of their invocations
    /\ t > 1 => thr[t - 1].pc # "idle"
    /\ \E op \in ThreadOperations(cls) : \E a \in ThreadArgs(cls, op) :
         LET th == [NoThread EXCEPT !.op = op, !.args = a]
             pre == Sequential(cls, th)
             ids == NewBuffers(heap, Len(BufferSizes(cls, op)))
         IN IF ~pre.native
            THEN /\ thr' = [thr EXCEPT ![t] = [th EXCEPT !.pc = "done", !.res = pre]]
                 /\ heap' = heap
            ELSE /\ thr' = [thr EXCEPT ![t] = [th EXCEPT !.pc = "allocated", !.bufs = ids]]
                 /\ heap' = Allocate(heap, ids, BufferSizes(cls, op))
    /\ UNCHANGED <<cls, lib, rng, notThreadVars, argtypes>>

\* func = getattr(self.lib.lib, func_name); func.argtypes = ...: the function
\* object is the library's, shared by every object and thread.
Bind(t) ==
    /\ thr[t].pc = "allocated"
    /\ argtypes' = [argtypes EXCEPT ![thr[t].op] = ArgTypes(thr[t].op)]
    /\ thr' = [thr EXCEPT ![t].pc = "bound"]
    /\ UNCHANGED <<cls, lib, rng, notThreadVars, heap>>

\* result = func(...): the arguments are converted by the argtypes the
\* function object has at this moment; the native function writes into the
\* buffers it is given; a call that went outside a buffer may kill the
\* process, and every thread with it.
Call(t) ==
    LET th == thr[t] IN
    /\ th.pc = "bound"
    /\ Draws(th.op) => rng < MaxRnd
    /\ \E rc \in IF Draws(th.op) THEN NativeCodes ELSE {0},
          n \in IF th.op = "sign" THEN NativeSigLens ELSE {0} :
         LET draw == IF Draws(th.op) THEN rng + 1 ELSE 0
             r == NativeCall(cls, th.op, th.args, Buffers(heap, th), rc, draw, n)
         IN IF argtypes[th.op] # ArgTypes(th.op)
            THEN /\ thr' = [thr EXCEPT ![t].pc = "done", ![t].res = Raise("ArgumentError")]
                 /\ UNCHANGED <<heap, rng>>
            ELSE \E crash \in Crashes(r) :
                 /\ rng' = IF Draws(th.op) THEN rng + 1 ELSE rng
                 /\ IF crash
                    THEN /\ thr' = [u \in Threads |->
                                      IF thr[u].pc = "done" THEN thr[u]
                                      ELSE [thr[u] EXCEPT !.pc = "crashed",
                                               !.res = AfterCall(TRUE, TRUE, NoOutcome)]]
                         /\ heap' = heap
                    ELSE /\ thr' = [thr EXCEPT ![t] =
                                      [th EXCEPT !.pc = "called", !.rc = rc, !.draw = draw,
                                          !.n = n,
                                          !.r = [result |-> r.result, ub |-> r.ub,
                                                 siglen |-> r.siglen],
                                          !.overlapped =
                                              \E u \in Threads \ {t} : InFlight(thr[u])]]
                         /\ heap' = [j \in 1 .. Len(heap) |->
                                       IF \E i \in 1 .. Len(th.bufs) : th.bufs[i] = j
                                       THEN r.out[CHOOSE i \in 1 .. Len(th.bufs) : th.bufs[i] = j]
                                       ELSE heap[j]]
    /\ UNCHANGED <<cls, lib, notThreadVars, argtypes>>

\* if result != 0: raise ...; return bytes(buffer), ...
Check(t) ==
    /\ thr[t].pc = "called"
    /\ thr' = [thr EXCEPT ![t].pc = "done",
                          ![t].res = Finish(thr[t].op, Buffers(heap, thr[t]), thr[t].r)]
    /\ UNCHANGED <<cls, lib, rng, notThreadVars, heap, argtypes>>

NextThreads == \E t \in Threads : Invoke(t) \/ Bind(t) \/ Call(t) \/ Check(t)

SpecThreads == InitThreads /\ [][NextThreads]_vars

\* C13: whatever the interleaving of concurrent keypair, encapsulate,
\* decapsulate, sign and verify invocations, each invocation that ends has
\* the result it has when it runs alone with the same native randomness, and
\* no two invocations are given the same randomness.
C13_ConcurrentAsSequential ==
    \A t \in DOMAIN thr :
      /\ thr[t].pc = "done" => thr[t].res = Sequential(cls, thr[t])
      /\ \A u \in DOMAIN thr \ {t} :
           thr[t].draw # 0 => thr[t].draw # thr[u].draw
\* two invocations of the same operation whose native calls overlapped, both
\* ended with a result
C13_Witness ==
    /\ thr # <<>>
    /\ thr[1].pc = "done" /\ thr[2].pc = "done"
    /\ thr[1].op = thr[2].op
    /\ thr[1].overlapped /\ thr[2].overlapped
    /\ thr[1].res.status = "returned" /\ thr[2].res.status = "returned"
    /\ thr[1].res.out # <<>>

\* A buffer that holds bytes of a secret key.
HoldsSecretKey(b) == b.kind = "sk" /\ b.have > 0
\* C14: when keypair, sign or decapsulate has ended, by a return or by an
\* exception, none of the buffers it worked in still holds secret-key bytes:
\* the method zeroed them before it released them.
C14_SecretKeyErased ==
    \A t \in DOMAIN thr :
      (thr[t].pc = "done" /\ thr[t].op \in {"keypair", "sign", "decapsulate"}) =>
        \A i \in 1 .. Len(thr[t].bufs) : ~HoldsSecretKey(heap[thr[t].bufs[i]])

\* --------------------------------------- one sign call, step by step
\* BaseDilithium.sign makes one native call and no retry of its own; the
\* rejection-sampling loop is the library's: it samples a candidate, rejects
\* and resamples, and gives up with a failure code after MaxAttempts
\* rejected candidates.
MaxAttempts == 3

\* Faulty variant of the end of sign: a failed native call is tried again.
AfterSignRetry(result) == IF result # 0 THEN "native" ELSE "done"

\* Where sign goes after the native call has returned: it raises
\* PQCSignatureError or returns the signature, and is over in both cases.
AfterSign(result) == "done"

InitSign ==
    /\ cls \in {c \in Classes : c.base = "BaseDilithium"}
    /\ lib \in Libraries(cls)
    /\ rng = 0
    /\ DriverIdle
    /\ pc = "done"
    /\ ThreadsIdle
    /\ LoaderIdle
    /\ CacheIdle
    /\ GettersIdle
    /\ PqcleanIdle
    /\ BuildIdle
    /\ call = NoCall

\* sign(message, secret_key) up to the native call: validation, buffer
SignCall ==
    /\ call.pc = "idle"
    /\ \E message \in MsgInputs,
          secret_key \in {HeldKeys(cls)[2]} \cup JunkInputs(cls.SECRET_KEY_BYTES) :
         LET pre == sign(cls, message, secret_key, 0, 0, 0, FALSE) IN
         call' = IF ~pre.native
                 THEN [NoCall EXCEPT !.pc = "done", !.args = <<message, secret_key>>,
                                     !.res = pre]
                 ELSE [NoCall EXCEPT !.pc = "native", !.args = <<message, secret_key>>,
                                     !.sig = create_string_buffer(cls.SIGNATURE_BYTES)]
    /\ UNCHANGED <<cls, lib, rng, notSignVars>>

\* the library rejects a candidate and resamples
Reject ==
    /\ call.pc = "native"
    /\ call.attempts < MaxAttempts
    /\ call' = [call EXCEPT !.attempts = @ + 1]
    /\ UNCHANGED <<cls, lib, rng, notSignVars>>

\* the library accepts a candidate: the signature is written, code 0
Accept ==
    /\ call.pc = "native"
    /\ call.attempts < MaxAttempts
    /\ \E n \in NativeSigLens :
         LET r == crypto_sign_signature(cls, call.sig, c_char_p(call.args[1]),
                     call.args[1].len, c_char_p(call.args[2]), 0, call.attempts + 1, n)
         IN call' = [call EXCEPT !.pc = "returned", !.sig = r.sig,
                        !.r = [result |-> r.result, ub |-> r.ub, siglen |-> r.siglen]]
    /\ UNCHANGED <<cls, lib, rng, notSignVars>>

\* the library has rejected MaxAttempts candidates: failure code
GiveUp ==
    /\ call.pc = "native"
    /\ call.attempts = MaxAttempts
    /\ LET r == crypto_sign_signature(cls, call.sig, c_char_p(call.args[1]),
                    call.args[1].len, c_char_p(call.args[2]), -1, 0, 0)
       IN call' = [call EXCEPT !.pc = "returned", !.sig = r.sig,
                      !.r = [result |-> r.result, ub |-> r.ub, siglen |-> r.siglen]]
    /\ UNCHANGED <<cls, lib, rng, notSignVars>>

\* if result != 0: raise PQCSignatureError; return signature[:actual_length]
SignReturn ==
    /\ call.pc = "returned"
    /\ call' = [call EXCEPT !.pc = AfterSign(call.r.result),
                            !.res = Finish("sign", <<call.sig>>, call.r)]
    /\ UNCHANGED <<cls, lib, rng, notSignVars>>

NextSign == SignCall \/ Reject \/ Accept \/ GiveUp \/ SignReturn

\* The call is synchronous: the calling thread keeps running until the
\* method is over.
SpecSign == InitSign /\ [][NextSign]_vars /\ WF_vars(Reject \/ Accept \/ GiveUp \/ SignReturn)

\* C15: every sign call whose arguments pass the validation ends: it returns
\* a signature or raises an error.
C15_SignTerminates ==
    (call.pc = "native") ~>
        (call.pc = "done" /\ call.res.status \in {"returned", "raised"})
\* the signing loop reached its cap and the call ended with the error
C15_Witness ==
    /\ call.pc = "done"
    /\ call.attempts = MaxAttempts
    /\ call.res.status = "raised"
    /\ call.res.exc = "PQCSignatureError"

\* ------------------------------------------------------ file paths
\* A path string is the sequence of its parts between slashes: "./libpqc.so"
\* is <<".", "libpqc.so">>, "/opt/libpqc.so" is <<"", "opt", "libpqc.so">>,
\* the empty string is <<>>. None is the value a parameter has by default.
None == [none |-> TRUE, segs |-> <<>>]
Str(segs) == [none |-> FALSE, segs |-> segs]

IsName(x) == x \notin {"", "."}
\* str(pathlib.Path(p)): empty and "." parts are dropped, a leading slash kept
PurePath(segs) ==
    LET names == SelectSeq(segs, IsName)
        norm == IF Len(segs) > 0 /\ segs[1] = "" THEN <<"">> \o names ELSE names
    IN IF norm = <<>> THEN <<".">> ELSE norm

\* Path.resolve(): ".." parts taken out with the directory before them
RECURSIVE ResolveFrom(_, _)
ResolveFrom(done, rest) ==
    IF rest = <<>> THEN done
    ELSE IF /\ Head(rest) = ".." /\ done # <<>>
            /\ done[Len(done)] \notin {"", ".."}
         THEN ResolveFrom(SubSeq(done, 1, Len(done) - 1), Tail(rest))
         ELSE ResolveFrom(Append(done, Head(rest)), Tail(rest))
resolve(segs) == ResolveFrom(<<>>, PurePath(segs))

\* What is at a path: nothing, a directory, or a regular file, which is a
\* shared library or not; a library exports some of the functions the
\* algorithm classes require.
NoFile == [kind |-> "none", library |-> FALSE, exports |-> {}]
Directory == [kind |-> "dir", library |-> FALSE, exports |-> {}]
TextFile == [kind |-> "file", library |-> FALSE, exports |-> {}]
Library(exports) == [kind |-> "file", library |-> TRUE, exports |-> exports]
\* A file system has a file given by its absolute path (custom), a file of
\* the working directory (local), a directory, and the library at its
\* place in the repository (repo) and in the installation prefix (share).
CustomFile == <<"", "opt", "libpqc.so">>
LocalFile == <<"libpqc.so">>
Lookup(files, path) ==
    IF path = CustomFile THEN files.custom
    ELSE IF path = LocalFile THEN files.local
    ELSE IF path = <<"bins">> THEN Directory
    ELSE IF path = files.repo_path THEN files.repo
    ELSE IF path = files.share_path THEN files.share
    ELSE NoFile
At(files, segs) == Lookup(files, resolve(segs))
exists(files, segs) == At(files, segs).kind # "none"
is_file(files, segs) == At(files, segs).kind = "file"

\* ----------------------------- wrappers/python/utils.py: the platform
\* str.lower() on the names platform.system() and platform.machine() give
Lower(x) ==
    CASE x = "Linux" -> "linux" [] x = "Darwin" -> "darwin" [] x = "Windows" -> "windows"
      [] x = "FreeBSD" -> "freebsd" [] x = "AMD64" -> "amd64" [] x = "ARM64" -> "arm64"
      [] x = "Y" -> "y" [] x = "N" -> "n"
      [] OTHER -> x

get_platform_info(host) ==
    LET system == Lower(host[1])
        machine == Lower(host[2])
        arch == IF machine \in {"x86_64", "amd64"} THEN "x86_64"
                ELSE IF machine \in {"aarch64", "arm64"}
                THEN (IF system = "linux" THEN "aarch64" ELSE "arm64")
                ELSE IF machine \in {"i386", "i686", "x86"} THEN "x86"
                ELSE IF machine \in {"armv7l"} THEN "arm"
                ELSE machine
    IN <<system, arch>>

get_library_name(system) ==
    IF system = "windows" THEN "pqc.dll"
    ELSE IF system = "darwin" THEN "libpqc.dylib"
    ELSE "libpqc.so"

\* f"macos-{arch}", f"linux-{arch}"
Dash(prefix, arch) ==
    CASE <<prefix, arch>> = <<"macos", "x86_64">> -> "macos-x86_64"
      [] <<prefix, arch>> = <<"macos", "arm64">> -> "macos-arm64"
      [] <<prefix, arch>> = <<"linux", "x86_64">> -> "linux-x86_64"
      [] <<prefix, arch>> = <<"linux", "aarch64">> -> "linux-aarch64"
      [] <<prefix, arch>> = <<"linux", "x86">> -> "linux-x86"
      [] <<prefix, arch>> = <<"linux", "arm">> -> "linux-arm"
      [] <<prefix, arch>> = <<"windows", "x86_64">> -> "windows-x86_64"
      [] <<prefix, arch>> = <<"windows", "x86">> -> "windows-x86"
      [] OTHER -> "other"

\* the outcome of a function that returns a path or raises
Found(segs) == [exc |-> "", path |-> segs]
NotFound(exc) == [exc |-> exc, path |-> <<>>]

\* the platform directory name, "" when find_binary_path raises RuntimeError
\* Faulty variant of platform_dir: Windows named like the other systems.
PlatformDirPlain(host) ==
    LET system == get_platform_info(host)[1]
        arch == get_platform_info(host)[2]
    IN IF system = "darwin" THEN Dash("macos", arch)
       ELSE IF system = "windows"
       THEN (IF arch \in {"x86_64", "x86"} THEN Dash("windows", arch) ELSE "")
       ELSE IF system = "linux" THEN Dash("linux", arch)
       ELSE ""

platform_dir(host) ==
    LET system == get_platform_info(host)[1]
        arch == get_platform_info(host)[2]
    IN IF system = "darwin" THEN Dash("macos", arch)
       ELSE IF system = "windows"
       THEN (IF arch = "x86_64" THEN "windows-x64"
             ELSE IF arch = "x86" THEN "windows-x86" ELSE "")
       ELSE IF system = "linux" THEN Dash("linux", arch)
       ELSE ""

\* ---------------------- wrappers/python/utils.py: find_binary_path
RepoRoot == <<"", "repo">>
ModuleDir == <<"", "repo", "wrappers", "python">>
Prefix == <<"", "prefix">>

\* the places find_binary_path looks at when no custom path is given
DefaultPaths(host) ==
    LET bin == <<"bins", platform_dir(host), get_library_name(get_platform_info(host)[1])>>
    IN <<RepoRoot \o bin,
         ModuleDir \o <<"..", "..">> \o bin,
         Prefix \o <<"share", "pqchub">> \o bin>>

\* the custom path, when it is given
FindCustom(files, path) ==
    IF exists(files, path) /\ is_file(files, path)
    THEN Found(path)
    ELSE NotFound("FileNotFoundError")
\* the first of the default places where something exists
FindDefault(tries, hits) ==
    IF hits = {} THEN NotFound("FileNotFoundError")
    ELSE Found(resolve(tries[CHOOSE i \in hits : \A j \in hits : i <= j]))

find_binary_path(files, host, custom_path) ==
    IF ~custom_path.none /\ custom_path.segs # <<>>
    THEN FindCustom(files, PurePath(custom_path.segs))
    ELSE IF platform_dir(host) = "" THEN NotFound("RuntimeError")
    ELSE FindDefault(DefaultPaths(host),
                     {i \in 1 .. Len(DefaultPaths(host)) :
                        exists(files, DefaultPaths(host)[i])})

\* ------------------------------------------ wrappers/python/pqc.py
\* ctypes.CDLL(name): a name with a slash is opened as a path, a name
\* without one is searched in the system's library directories.
CDLL(files, name) ==
    IF Len(name) = 1 THEN At(files, <<"", "usr", "lib">> \o name) ELSE At(files, name)

\* PQCLibrary._load_library: ctypes.CDLL on the path found; loaded says
\* whether CDLL was called.
load_library(files, found) ==
    IF found.exc # ""
    THEN [exc |-> found.exc, loaded |-> FALSE, binary_path |-> <<>>]
    ELSE IF ~CDLL(files, found.path).library
    THEN [exc |-> "PQCLibraryError", loaded |-> TRUE, binary_path |-> <<>>]
    ELSE [exc |-> "", loaded |-> TRUE, binary_path |-> found.path]

\* PQCLibrary(binary_path): find_binary_path, then _load_library
PQCLibrary(files, host, binary_path) ==
    load_library(files, find_binary_path(files, host, binary_path))

\* get_required_functions(): the names, without the class's FUNC_PREFIX
get_required_functions(c) ==
    IF c.family = "kem"
    THEN <<"_crypto_kem_keypair", "_crypto_kem_enc", "_crypto_kem_dec">>
    ELSE <<"_crypto_sign_keypair", "_crypto_sign_signature", "_crypto_sign_verify">>
AllFunctions ==
    {"_crypto_kem_keypair", "_crypto_kem_enc", "_crypto_kem_dec",
     "_crypto_sign_keypair", "_crypto_sign_signature", "_crypto_sign_verify"}
check_library_function(exports, func_name) == func_name \in exports

\* Faulty variant of _check_functions: the last required name is not looked at.
CheckSkipsLast(c, exports) ==
    LET required == get_required_functions(c)
        missing == {i \in 1 .. Len(required) - 1 :
                      ~check_library_function(exports, required[i])}
    IN IF missing = {} THEN ""
       ELSE required[CHOOSE i \in missing : \A j \in missing : i <= j]

\* BasePQC._check_functions: "" or the name PQCLibraryError is raised for
check_functions(c, exports) ==
    LET required == get_required_functions(c)
        missing == {i \in 1 .. Len(required) :
                      ~check_library_function(exports, required[i])}
    IN IF missing = {} THEN ""
       ELSE required[CHOOSE i \in missing : \A j \in missing : i <= j]

\* _global_lib = PQCLibrary(binary_path) when _global_lib is g, the
\* instances made so far are instances and n loads have been made: the new
\* values of the three, the exception raised ("" for none) and the instance
\* returned.
\* Faulty variant of SetGlobal: a failed load clears the global instance.
SetGlobalClearsOnFailure(g, instances, n, made) ==
    IF made.exc # ""
    THEN [global_lib |-> 0, libs |-> instances,
          loads |-> IF made.loaded THEN n + 1 ELSE n, exc |-> made.exc, res |-> 0]
    ELSE [global_lib |-> Len(instances) + 1,
          libs |-> Append(instances, [binary_path |-> made.binary_path]),
          loads |-> n + 1, exc |-> "", res |-> Len(instances) + 1]

SetGlobal(g, instances, n, made) ==
    IF made.exc # ""
    THEN [global_lib |-> g, libs |-> instances,
          loads |-> IF made.loaded THEN n + 1 ELSE n, exc |-> made.exc, res |-> 0]
    ELSE [global_lib |-> Len(instances) + 1,
          libs |-> Append(instances, [binary_path |-> made.binary_path]),
          loads |-> n + 1, exc |-> "", res |-> Len(instances) + 1]

\* Faulty variant of get_library: the cached instance never reused.
GetLibraryAlwaysLoads(g, instances, n, files, host, binary_path) ==
    SetGlobal(g, instances, n, PQCLibrary(files, host, binary_path))

\* Faulty variant of get_library: a path is ignored once an instance is cached.
GetLibraryKeepsFirst(g, instances, n, files, host, binary_path) ==
    IF g = 0
    THEN SetGlobal(g, instances, n, PQCLibrary(files, host, binary_path))
    ELSE [global_lib |-> g, libs |-> instances, loads |-> n, exc |-> "", res |-> g]

\* get_library(binary_path)
get_library(g, instances, n, files, host, binary_path) ==
    IF g = 0 \/ ~binary_path.none
    THEN SetGlobal(g, instances, n, PQCLibrary(files, host, binary_path))
    ELSE [global_lib |-> g, libs |-> instances, loads |-> n, exc |-> "", res |-> g]

\* ------------------------------------------- the loader, call by call
MaxLoads == 2
MaxObjects == 2

\* the six supported platforms under the machine names they are known by
SupportedHosts ==
    ({"Windows"} \X {"AMD64", "x86_64", "x86"})
      \cup ({"Darwin"} \X {"arm64", "aarch64", "x86_64", "amd64"})
      \cup ({"Linux"} \X {"x86_64", "amd64", "aarch64", "arm64"})
Hosts ==
    SupportedHosts
      \cup {<<"Windows", "ARM64">>, <<"Linux", "armv7l">>, <<"FreeBSD", "amd64">>}
\* the paths a caller passes: none, the empty string, a library, the same
\* local file written with and without "./", a directory, a missing file
PathInputs ==
    {None, Str(<<>>), Str(CustomFile), Str(<<".", "libpqc.so">>), Str(LocalFile),
     Str(<<"bins">>), Str(<<"missing.so">>)}
\* the paths given to get_library and to the constructors
LoaderPaths == {None, Str(CustomFile), Str(<<".", "libpqc.so">>), Str(<<"missing.so">>)}
\* the hosts the loader is followed on: a supported and an unsupported one
LoaderHosts == {<<"Linux", "x86_64">>, <<"Windows", "ARM64">>}

\* libraries that lack functions of class c
PartialLibraries(c) ==
    {Library({get_required_functions(c)[1]}),
     Library({get_required_functions(c)[1], get_required_functions(c)[2]})}
FileSystems(c, host) ==
    {[custom |-> custom, local |-> local, repo |-> default[1], share |-> default[2],
      repo_path |-> resolve(DefaultPaths(host)[1]),
      share_path |-> resolve(DefaultPaths(host)[3])] :
       custom \in {Library(AllFunctions), TextFile} \cup PartialLibraries(c),
       local \in {NoFile, Library(AllFunctions)},
       default \in IF platform_dir(host) = "" THEN {<<NoFile, NoFile>>}
                   ELSE {<<NoFile, NoFile>>, <<Library(AllFunctions), NoFile>>,
                         <<NoFile, Library(AllFunctions)>>}}

\* one class of each module of the wrapper package
LoaderClasses == {Kyber512, Dilithium2, Falcon512}

InitLoader ==
    /\ cls \in LoaderClasses
    /\ lib = [CRYPTO_BYTES |-> cls.SIGNATURE_BYTES]
    /\ rng = 0
    /\ DriverIdle
    /\ pc = "done"
    /\ ThreadsIdle
    /\ SignIdle
    /\ \E host \in LoaderHosts : \E files \in FileSystems(cls, host) :
         env = [host |-> host, files |-> files]
    /\ global_lib = 0
    /\ libs = <<>>
    /\ loads = 0
    /\ objs = <<>>
    /\ lastc = NoLoaderCall
    /\ CacheIdle
    /\ GettersIdle
    /\ PqcleanIdle
    /\ BuildIdle

\* the functions the library of instance number i exports
Exports(i) == CDLL(env.files, libs[i].binary_path).exports

\* find_binary_path on any host and file system
InitFind ==
    /\ cls \in LoaderClasses
    /\ lib = [CRYPTO_BYTES |-> cls.SIGNATURE_BYTES]
    /\ rng = 0
    /\ DriverIdle
    /\ pc = "done"
    /\ ThreadsIdle
    /\ SignIdle
    /\ \E host \in Hosts : \E files \in FileSystems(cls, host) :
         env = [host |-> host, files |-> files]
    /\ global_lib = 0
    /\ libs = <<>>
    /\ loads = 0
    /\ objs = <<>>
    /\ lastc = NoLoaderCall
    /\ CacheIdle
    /\ GettersIdle
    /\ PqcleanIdle
    /\ BuildIdle

\* utils.find_binary_path(custom_path), called directly
FindBinaryPath ==
    /\ \E custom_path \in PathInputs :
         LET found == find_binary_path(env.files, env.host, custom_path) IN
         lastc' = [NoLoaderCall EXCEPT !.op = "find_binary_path", !.path = custom_path,
                      !.before = global_lib, !.loads_before = loads,
                      !.exc = found.exc, !.found = found.path]
    /\ UNCHANGED <<cls, lib, env, global_lib, libs, loads, objs, notLoaderVars>>

SpecFind == InitFind /\ [][FindBinaryPath]_vars

\* pqc.get_library(binary_path)
GetLibrary ==
    /\ \E binary_path \in LoaderPaths :
         \E got \in {get_library(global_lib, libs, loads, env.files, env.host, binary_path)} :
         /\ got.loads <= MaxLoads
         /\ global_lib' = got.global_lib
         /\ libs' = got.libs
         /\ loads' = got.loads
         /\ lastc' = [NoLoaderCall EXCEPT !.op = "get_library", !.path = binary_path,
                         !.before = global_lib, !.loads_before = loads,
                         !.exc = got.exc, !.res = got.res]
    /\ UNCHANGED <<cls, lib, env, objs, notLoaderVars>>

\* BasePQC.__init__(binary_path) of the class: get_library, _check_functions
Construct ==
    /\ Len(objs) < MaxObjects
    /\ \E binary_path \in LoaderPaths :
         \E got \in {get_library(global_lib, libs, loads, env.files, env.host, binary_path)} :
         \E missing \in {IF got.exc # "" THEN ""
                          ELSE check_functions(cls,
                                   CDLL(env.files, got.libs[got.res].binary_path).exports)} :
         /\ got.loads <= MaxLoads
         /\ global_lib' = got.global_lib
         /\ libs' = got.libs
         /\ loads' = got.loads
         /\ objs' = IF got.exc = "" /\ missing = ""
                    THEN Append(objs, [cls |-> cls.name, lib |-> got.res])
                    ELSE objs
         /\ lastc' = [NoLoaderCall EXCEPT !.op = "construct", !.path = binary_path,
                         !.before = global_lib, !.loads_before = loads,
                         !.exc = IF got.exc # "" THEN got.exc
                                 ELSE IF missing # "" THEN "PQCLibraryError" ELSE "",
                         !.res = got.res, !.missing = missing]
    /\ UNCHANGED <<cls, lib, env, notLoaderVars>>

\* a method of a constructed object: func = getattr(self.lib.lib, func_name)
Operate ==
    /\ \E o \in 1 .. Len(objs) : \E i \in 1 .. Len(get_required_functions(cls)) :
         LET func_name == get_required_functions(cls)[i]
             resolved == check_library_function(Exports(objs[o].lib), func_name)
         IN lastc' = [NoLoaderCall EXCEPT !.op = "call", !.before = global_lib,
                         !.loads_before = loads, !.res = o,
                         !.exc = IF resolved THEN "" ELSE "AttributeError",
                         !.missing = IF resolved THEN "" ELSE func_name]
    /\ UNCHANGED <<cls, lib, env, global_lib, libs, loads, objs, notLoaderVars>>

NextLoader == GetLibrary \/ Construct \/ Operate

SpecLoader == InitLoader /\ [][NextLoader]_vars

\* C16: once a library instance is cached, get_library() without a path
\* returns that instance and loads nothing, and an object constructed
\* without a path holds that instance.
C16_CachedLibraryHandle ==
    (lastc.op \in {"get_library", "construct"} /\ lastc.path = None /\ lastc.before # 0) =>
      /\ global_lib = lastc.before
      /\ loads = lastc.loads_before
      /\ lastc.res = lastc.before
      /\ lastc.op = "get_library" => lastc.exc = ""
      /\ (lastc.op = "construct" /\ lastc.exc = "") => objs[Len(objs)].lib = lastc.before
\* two objects constructed without a path after a first load share the instance
C16_Witness ==
    /\ lastc.op = "construct" /\ lastc.path = None /\ lastc.before # 0 /\ lastc.exc = ""
    /\ Len(objs) = 2
    /\ objs[1].lib = objs[2].lib
    /\ loads = 1

\* C18: every constructed object has all its required functions in its
\* library, so that a method call always resolves its function; and a
\* constructor that obtained a library returns an object exactly when the
\* library has every required function, and otherwise raises
\* PQCLibraryError for the first required name that is missing.
C18_RequiredFunctionCheck ==
    LET required == get_required_functions(cls)
        Has(i, k) == check_library_function(Exports(i), required[k])
    IN
    /\ \A o \in 1 .. Len(objs) : \A k \in 1 .. Len(required) : Has(objs[o].lib, k)
    /\ lastc.op = "call" => lastc.exc = ""
    /\ (lastc.op = "construct" /\ lastc.res # 0) =>
         IF \A k \in 1 .. Len(required) : Has(lastc.res, k)
         THEN lastc.exc = "" /\ objs # <<>> /\ objs[Len(objs)].lib = lastc.res
         ELSE /\ lastc.exc = "PQCLibraryError"
              /\ \E k \in 1 .. Len(required) :
                   /\ lastc.missing = required[k]
                   /\ ~Has(lastc.res, k)
                   /\ \A j \in 1 .. k - 1 : Has(lastc.res, j)
\* an object exists, and the construction of another on a library that lacks
\* the second and third function raised the error for the second
C18_Witness ==
    /\ Len(objs) = 1
    /\ lastc.op = "construct" /\ lastc.res # 0
    /\ lastc.exc = "PQCLibraryError"
    /\ lastc.missing = get_required_functions(cls)[2]
    /\ ~check_library_function(Exports(lastc.res), get_required_functions(cls)[3])

\* C20: find_binary_path with a non-empty custom path returns that very path
\* when a regular file is there, and raises FileNotFoundError otherwise.
C20_CustomBinaryPath ==
    (lastc.op = "find_binary_path" /\ ~lastc.path.none /\ lastc.path.segs # <<>>) =>
      IF exists(env.files, lastc.path.segs) /\ is_file(env.files, lastc.path.segs)
      THEN lastc.exc = "" /\ lastc.found = lastc.path.segs
      ELSE lastc.exc = "FileNotFoundError"

\* C17: whichever Falcon class a program uses, the classes of the same name
\* in the other two implementations declare another SIGNATURE_BYTES: the
\* three implementations disagree on the maximum signature size of Falcon-512
\* and of Falcon-1024.
C17_FalconSignatureBytesDiffer ==
    cls.name \in {"Falcon512", "Falcon1024"} =>
      /\ {d.impl : d \in {e \in SigClasses : e.name = cls.name}}
           = {"wrappers", "classes", "pqchub"}
      /\ \A d \in SigClasses :
           (d.name = cls.name /\ d.impl # cls.impl) =>
             d.SIGNATURE_BYTES # cls.SIGNATURE_BYTES
\* Falcon512 of the wrapper package on a library built for the size classes.py
\* declares: a signature was returned by a call that overran the buffer
C17_Witness ==
    /\ cls.name = "Falcon512" /\ cls.impl = "wrappers"
    /\ lib.CRYPTO_BYTES = ExFalcon512.SIGNATURE_BYTES
    /\ last.op = "sign" /\ Returned /\ last.res.ub

\* ------------------------------------------ the examples' download cache
\* The number of get_binary_path calls followed.
MaxCalls == 2

\* Python's  sub in machine  for the machine names and substrings in use
Has(machine, sub) ==
    <<machine, sub>> \in
      {<<"x86_64", "64">>, <<"amd64", "64">>, <<"amd64", "amd64">>,
       <<"aarch64", "64">>, <<"aarch64", "aarch64">>,
       <<"arm64", "64">>, <<"arm64", "arm">>, <<"arm64", "arm64">>}

\* detect_platform of both examples: the platform identifier, or exc when the
\* system is none of the three
detect_platform(host) ==
    LET system == Lower(host[1])
        machine == Lower(host[2])
    IN  IF system = "windows"
        THEN [exc |-> FALSE,
              id |-> IF Has(machine, "64") \/ Has(machine, "amd64")
                     THEN "windows-x64" ELSE "windows-x86"]
        ELSE IF system = "darwin"
        THEN [exc |-> FALSE,
              id |-> IF Has(machine, "arm") \/ Has(machine, "aarch64")
                     THEN "macos-arm64" ELSE "macos-x86_64"]
        ELSE IF system = "linux"
        THEN [exc |-> FALSE,
              id |-> IF Has(machine, "aarch64") \/ Has(machine, "arm64")
                     THEN "linux-aarch64" ELSE "linux-x86_64"]
        ELSE [exc |-> TRUE, id |-> ""]

PlatformIds ==
    {"windows-x64", "windows-x86", "macos-arm64", "macos-x86_64",
     "linux-aarch64", "linux-x86_64"}
Filenames == {"libpqc.so", "pqc.dll"}
\* the paths below the cache directory: <platform_id>/<filename>
CachePaths == PlatformIds \X Filenames

\* What is at a path of the cache: nothing, a directory, or a file with the
\* number of the call that wrote it (0: before the first call) and whether
\* it was written to the end.
Absent == [kind |-> "absent", data |-> 0, whole |-> TRUE]
Dir == [kind |-> "dir", data |-> 0, whole |-> TRUE]
File(n, whole) == [kind |-> "file", data |-> n, whole |-> whole]

\* Faulty variant of cached_exists: the cache is never looked at.
CachedNever(entry) == FALSE

\* Path.exists() of the cached path
cached_exists(entry) == entry.kind # "absent"

\* urllib.request.urlretrieve(url, dest_path): the download goes through, is
\* refused, or breaks off after the file was opened for writing
Downloads == {"ok", "refused", "short"}
urlretrieve(files, dest_path, dl, n) ==
    CASE dl = "ok" ->
           [files |-> [files EXCEPT ![dest_path] = File(n, TRUE)], exc |-> ""]
      [] dl = "short" ->
           [files |-> [files EXCEPT ![dest_path] = File(n, FALSE)],
            exc |-> "ContentTooShortError"]
      [] OTHER -> [files |-> files, exc |-> "URLError"]

CacheOutcome(files, fetched, requested, status, ok, is_new, path, exc) ==
    [files |-> files, fetched |-> fetched, requested |-> requested,
     res |-> [status |-> status, ok |-> ok, is_new |-> is_new, path |-> path,
              exc |-> exc]]

\* utils/bin.py: the download's failure is returned by download_file and
\* dropped by get_binary_path
bin_download(files, got, cached_path) ==
    CacheOutcome(got.files, 1, 1, "returned", TRUE, TRUE, cached_path, "")

\* utils/bin.py get_binary_path(metadata_url, cache_dir): remote is the
\* 'binaries' table of the metadata document, fetch whether the request for
\* it goes through, n the number of the call
get_binary_path(files, host, remote, fetch, dl, n) ==
    LET p == detect_platform(host) IN
    IF p.exc
    THEN CacheOutcome(files, 0, 0, "returned", FALSE, FALSE, <<>>, "TypeError")
    ELSE IF fetch # "ok"
    THEN CacheOutcome(files, 1, 0, "returned", FALSE, FALSE, <<>>, "URLError")
    ELSE IF p.id \in DOMAIN remote
    THEN IF cached_exists(files[<<p.id, remote[p.id]>>])
         THEN CacheOutcome(files, 1, 0, "returned", TRUE, FALSE,
                           <<p.id, remote[p.id]>>, "")
         ELSE bin_download(files,
                           urlretrieve(files, <<p.id, remote[p.id]>>, dl, n),
                           <<p.id, remote[p.id]>>)
    ELSE CacheOutcome(files, 1, 0, "returned", FALSE, FALSE, <<>>,
                      "Unsupported platform")

\* pqchub.py download_file and the return after it: the exception of
\* urlretrieve leaves get_binary_path
pqchub_download(files, got, cached_path) ==
    IF got.exc # ""
    THEN CacheOutcome(got.files, 1, 1, "raised", FALSE, FALSE, <<>>, got.exc)
    ELSE CacheOutcome(got.files, 1, 1, "returned", TRUE, FALSE, cached_path, "")

\* pqchub.py get_binary_path(): it returns the path alone (ok and is_new are
\* no part of its value)
pqchub_get_binary_path(files, host, remote, fetch, dl, n) ==
    LET p == detect_platform(host) IN
    IF p.exc
    THEN CacheOutcome(files, 0, 0, "raised", FALSE, FALSE, <<>>, "Exception")
    ELSE IF fetch # "ok"
    THEN CacheOutcome(files, 1, 0, "raised", FALSE, FALSE, <<>>, "URLError")
    ELSE IF p.id \notin DOMAIN remote
    THEN CacheOutcome(files, 1, 0, "raised", FALSE, FALSE, <<>>, "Exception")
    ELSE IF cached_exists(files[<<p.id, remote[p.id]>>])
    THEN CacheOutcome(files, 1, 0, "returned", TRUE, FALSE,
                      <<p.id, remote[p.id]>>, "")
    ELSE pqchub_download(files, urlretrieve(files, <<p.id, remote[p.id]>>, dl, n),
                         <<p.id, remote[p.id]>>)

\* the hosts, metadata documents and cache contents the calls start from
CacheHosts ==
    {<<"Linux", "x86_64">>, <<"Linux", "aarch64">>, <<"Windows", "AMD64">>,
     <<"Darwin", "arm64">>, <<"FreeBSD", "amd64">>}
Remotes ==
    {[id \in PlatformIds |-> "libpqc.so"], [id \in PlatformIds |-> "pqc.dll"],
     [id \in {"linux-x86_64"} |-> "libpqc.so"]}
\* nothing is cached for another platform than the host's
CacheContents(host) ==
    {[path \in CachePaths |->
        IF path[1] = detect_platform(host).id THEN under[path[2]] ELSE Absent] :
       under \in [Filenames -> {Absent, Dir, File(0, TRUE)}]}

InitCache ==
    /\ cls \in LoaderClasses
    /\ lib = [CRYPTO_BYTES |-> cls.SIGNATURE_BYTES]
    /\ rng = 0
    /\ DriverIdle
    /\ pc = "done"
    /\ ThreadsIdle
    /\ SignIdle
    /\ LoaderIdle
    /\ GettersIdle
    /\ PqcleanIdle
    /\ BuildIdle
    /\ \E variant \in {"bin", "pqchub"} : \E host \in CacheHosts :
       \E remote \in Remotes : \E files \in CacheContents(host) :
         cache = [NoCache EXCEPT !.variant = variant, !.host = host,
                                 !.remote = remote, !.files = files]

CacheAfterCall(fetch, dl, got) ==
    [cache EXCEPT !.files = got.files, !.calls = @ + 1,
                  !.last = [op |-> "get_binary_path", before |-> cache.files,
                            fetch |-> fetch, dl |-> dl, fetched |-> got.fetched,
                            requested |-> got.requested, res |-> got.res]]

\* a call of utils/bin.py get_binary_path
GetBinaryPath ==
    /\ cache.variant = "bin"
    /\ cache.calls < MaxCalls
    /\ \E fetch \in {"ok", "refused"} : \E dl \in Downloads :
       \E got \in {get_binary_path(cache.files, cache.host, cache.remote, fetch, dl,
                                   cache.calls + 1)} :
         cache' = CacheAfterCall(fetch, dl, got)
    /\ UNCHANGED <<cls, lib, rng, driverVars, threadVars, signVars, loaderVars, toolVars>>

\* a call of pqchub.py get_binary_path
HubGetBinaryPath ==
    /\ cache.variant = "pqchub"
    /\ cache.calls < MaxCalls
    /\ \E fetch \in {"ok", "refused"} : \E dl \in Downloads :
       \E got \in {pqchub_get_binary_path(cache.files, cache.host, cache.remote,
                                          fetch, dl, cache.calls + 1)} :
         cache' = CacheAfterCall(fetch, dl, got)
    /\ UNCHANGED <<cls, lib, rng, driverVars, threadVars, signVars, loaderVars, toolVars>>

NextCache == GetBinaryPath \/ HubGetBinaryPath
SpecCache == InitCache /\ [][NextCache]_vars

\* the last call was made on a host whose platform the metadata lists, so
\* that cache_dir/<platform_id>/<filename> is a path
CachePathKnown ==
    /\ cache.last.op = "get_binary_path"
    /\ ~detect_platform(cache.host).exc
    /\ detect_platform(cache.host).id \in DOMAIN cache.remote
CachePath ==
    <<detect_platform(cache.host).id, cache.remote[detect_platform(cache.host).id]>>
\* the call issued a download request exactly when nothing was at the path
DownloadsIffAbsent ==
    (cache.last.requested = 1) <=> (cache.last.before[CachePath].kind = "absent")
\* a cached file is returned, not requested again and left as it was
CachedFileUsed ==
    cache.last.before[CachePath].kind = "file" =>
      /\ cache.last.res.status = "returned"
      /\ cache.last.res.path = CachePath
      /\ (cache.variant = "bin" => (cache.last.res.ok /\ ~cache.last.res.is_new))
      /\ cache.last.requested = 0
      /\ cache.files[CachePath] = cache.last.before[CachePath]

\* C19: a get_binary_path call whose metadata request went through issues a
\* download request if and only if nothing exists at
\* cache_dir/<platform_id>/<filename>; when the file is already cached it
\* returns that path (with is_new = False in utils/bin.py), issues no
\* download request and leaves the cached file as it was. A call whose
\* metadata request fails issues no download request, writes nothing and
\* returns no path, cached file or not.
C19_BinaryCacheAfterMetadata ==
    CachePathKnown =>
      IF cache.last.fetch = "ok"
      THEN DownloadsIffAbsent /\ CachedFileUsed
      ELSE /\ cache.last.requested = 0
           /\ cache.files = cache.last.before
           /\ cache.last.res.path = <<>>
\* the second call returns the file the first call downloaded
C19_Witness ==
    /\ CachePathKnown
    /\ cache.last.fetch = "ok"
    /\ cache.last.before[CachePath] = File(1, TRUE)
    /\ cache.last.res.path = CachePath
    /\ cache.last.requested = 0
\* C19 as stated: every call downloads the binary if and only if nothing
\* exists at the cache path, and returns a cached file without a download
C19_BinaryCache == CachePathKnown => (DownloadsIffAbsent /\ CachedFileUsed)

\* C24: a get_library(p) call with a path that returns has loaded a new
\* PQCLibrary, never the cached one, and made it the global instance, also
\* when p is the path already loaded; the objects constructed earlier keep
\* the library they were constructed with; and the global instance, which
\* get_library(None) returns, is always the most recently loaded one.
LoadedWithPath ==
    /\ lastc.op \in {"get_library", "construct"}
    /\ ~lastc.path.none
    /\ lastc.res # 0
C24_PathAlwaysLoads ==
    /\ [](LoadedWithPath =>
            /\ lastc.res = Len(libs)
            /\ lastc.res # lastc.before
            /\ global_lib = lastc.res
            /\ loads = lastc.loads_before + 1)
    /\ [](global_lib = Len(libs))
    /\ []((lastc.op = "get_library" /\ lastc.path.none /\ lastc.exc = "") =>
            lastc.res = Len(libs))
    /\ [][/\ \A o \in 1 .. Len(objs) : o <= Len(objs') /\ objs'[o] = objs[o]
          /\ \A i \in 1 .. Len(libs) : i <= Len(libs') /\ libs'[i] = libs[i]]_vars
\* an object holds the first instance, the same path was loaded again as the
\* second instance, and get_library(None) returned the second
C24_Witness ==
    /\ Len(objs) = 1 /\ objs[1].lib = 1
    /\ Len(libs) = 2 /\ libs[1].binary_path = libs[2].binary_path
    /\ lastc.op = "get_library" /\ lastc.path.none /\ lastc.res = 2

\* C25: when the load inside get_library fails (FileNotFoundError or
\* RuntimeError from find_binary_path, PQCLibraryError from ctypes.CDLL), the
\* call raises that exception and the global instance and the instances
\* loaded so far are as they were before the call.
LoadAttempted ==
    /\ lastc.op \in {"get_library", "construct"}
    /\ lastc.before = 0 \/ ~lastc.path.none
C25_FailedLoadKeepsGlobal ==
    (LoadAttempted /\ PQCLibrary(env.files, env.host, lastc.path).exc # "") =>
      /\ lastc.exc = PQCLibrary(env.files, env.host, lastc.path).exc
      /\ lastc.exc \in {"FileNotFoundError", "RuntimeError", "PQCLibraryError"}
      /\ lastc.res = 0
      /\ global_lib = lastc.before
      /\ global_lib = Len(libs)
\* a library is cached and a get_library call with a path ctypes cannot load
\* raised PQCLibraryError
C25_Witness ==
    /\ lastc.op = "get_library"
    /\ lastc.before # 0
    /\ lastc.exc = "PQCLibraryError"
    /\ loads = lastc.loads_before + 1
    /\ global_lib = lastc.before

\* ------------------------------ get_library called by concurrent threads
\* A thread's call of get_library: binary_path its argument, entered_with
\* the value of _global_lib when it entered, made the number of the
\* PQCLibrary it constructed (0: none), res the number of the instance
\* returned, exc the exception that left the call.
NoGetter ==
    [pc |-> "idle", binary_path |-> None, entered_with |-> 0, made |-> 0, res |-> 0,
     exc |-> ""]
GetterPaths == {None, Str(CustomFile)}

InitGetters ==
    /\ cls \in LoaderClasses
    /\ lib = [CRYPTO_BYTES |-> cls.SIGNATURE_BYTES]
    /\ rng = 0
    /\ DriverIdle
    /\ pc = "done"
    /\ ThreadsIdle
    /\ SignIdle
    /\ \E files \in FileSystems(cls, <<"Linux", "x86_64">>) :
         env = [host |-> <<"Linux", "x86_64">>, files |-> files]
    /\ global_lib = 0
    /\ libs = <<>>
    /\ loads = 0
    /\ objs = <<>>
    /\ lastc = NoLoaderCall
    /\ CacheIdle
    /\ getters = [t \in Threads |-> NoGetter]
    /\ PqcleanIdle
    /\ BuildIdle

\* thread t calls get_library(binary_path)
Enter(t) ==
    /\ getters[t].pc = "idle"
    /\ t > 1 => getters[t - 1].pc # "idle"
    /\ \E binary_path \in GetterPaths :
         getters' = [getters EXCEPT ![t] = [NoGetter EXCEPT !.pc = "test",
                                              !.binary_path = binary_path,
                                              !.entered_with = global_lib]]
    /\ UNCHANGED <<notToolVars, loaderVars, pqclean, build>>

\* if _global_lib is None or binary_path is not None:
Test(t) ==
    /\ getters[t].pc = "test"
    /\ getters' = [getters EXCEPT ![t].pc =
                     IF global_lib = 0 \/ ~getters[t].binary_path.none
                     THEN "load" ELSE "return"]
    /\ UNCHANGED <<notToolVars, loaderVars, pqclean, build>>

\* PQCLibrary(binary_path): the value of the right-hand side
Load(t) ==
    /\ getters[t].pc = "load"
    /\ \E made \in {PQCLibrary(env.files, env.host, getters[t].binary_path)} :
         /\ loads' = IF made.loaded THEN loads + 1 ELSE loads
         /\ libs' = IF made.exc = ""
                    THEN Append(libs, [binary_path |-> made.binary_path]) ELSE libs
         /\ getters' = [getters EXCEPT ![t] =
                          IF made.exc = ""
                          THEN [@ EXCEPT !.pc = "store", !.made = Len(libs) + 1]
                          ELSE [@ EXCEPT !.pc = "done", !.exc = made.exc]]
    /\ UNCHANGED <<notToolVars, env, global_lib, objs, lastc, pqclean, build>>

\* _global_lib = <the PQCLibrary constructed>
Store(t) ==
    /\ getters[t].pc = "store"
    /\ global_lib' = getters[t].made
    /\ getters' = [getters EXCEPT ![t].pc = "return"]
    /\ UNCHANGED <<notToolVars, env, libs, loads, objs, lastc, pqclean, build>>

\* return _global_lib
GetterReturn(t) ==
    /\ getters[t].pc = "return"
    /\ getters' = [getters EXCEPT ![t] = [@ EXCEPT !.pc = "done", !.res = global_lib]]
    /\ UNCHANGED <<notToolVars, loaderVars, pqclean, build>>

NextGetters ==
    \E t \in Threads : Enter(t) \/ Test(t) \/ Load(t) \/ Store(t) \/ GetterReturn(t)
SpecGetters == InitGetters /\ [][NextGetters]_vars

\* C26: when two threads have called get_library(None) while no global
\* instance existed and both calls have returned, ctypes.CDLL was called
\* exactly once and both calls returned the same PQCLibrary instance.
C26_ConcurrentLoadOnce ==
    \A t, u \in Threads :
      (/\ t # u
       /\ getters[t].pc = "done" /\ getters[u].pc = "done"
       /\ getters[t].binary_path.none /\ getters[u].binary_path.none
       /\ getters[t].entered_with = 0 /\ getters[u].entered_with = 0
       /\ getters[t].res # 0 /\ getters[u].res # 0) =>
        /\ loads = 1
        /\ getters[t].res = getters[u].res

\* ------------------------------------- platform selection, three times
\* tests/test_python.py find_binary: the directory below bins/ and the
\* library name, or none when the system is none of the three
find_binary(host) ==
    LET system == Lower(host[1])
        machine == Lower(host[2])
    IN  IF system = "windows"
        THEN [none |-> FALSE, lib_name |-> "pqc.dll",
              platform_dir |-> IF Has(machine, "64") \/ Has(machine, "amd64")
                               THEN "windows-x64" ELSE "windows-x86"]
        ELSE IF system = "darwin"
        THEN [none |-> FALSE, lib_name |-> "libpqc.dylib",
              platform_dir |-> IF Has(machine, "arm") \/ Has(machine, "aarch64")
                               THEN "macos-arm64" ELSE "macos-x86_64"]
        ELSE IF system = "linux"
        THEN [none |-> FALSE, lib_name |-> "libpqc.so",
              platform_dir |-> IF Has(machine, "aarch64") \/ Has(machine, "arm64")
                               THEN "linux-aarch64" ELSE "linux-x86_64"]
        ELSE [none |-> TRUE, lib_name |-> "", platform_dir |-> ""]

\* find_binary_path() found the library of the repository
FoundInRepo ==
    /\ lastc.op = "find_binary_path"
    /\ lastc.path.none
    /\ lastc.exc = ""
    /\ Len(lastc.found) = 5
    /\ lastc.found[3] = "bins"

\* C27: on each of the six supported platforms, under each machine name it
\* is known by, the platform directory of find_binary_path, the identifier
\* of detect_platform and the directory of the test's find_binary are the
\* same, and it is the directory of the path find_binary_path returns.
C27_PlatformSelectionAgrees ==
    env.host \in SupportedHosts =>
      /\ platform_dir(env.host) \in PlatformIds
      /\ ~detect_platform(env.host).exc
      /\ detect_platform(env.host).id = platform_dir(env.host)
      /\ ~find_binary(env.host).none
      /\ find_binary(env.host).platform_dir = platform_dir(env.host)
      /\ FoundInRepo => lastc.found[4] = detect_platform(env.host).id
\* on a Mac reporting aarch64, find_binary_path returned the library below
\* bins/macos-arm64
C27_Witness ==
    /\ env.host = <<"Darwin", "aarch64">>
    /\ FoundInRepo
    /\ lastc.found[4] = "macos-arm64"
    /\ find_binary(env.host).platform_dir = "macos-arm64"

\* ------------------------------------------ scripts/download_pqclean.py
\* The number of runs of the script followed.
MaxRuns == 1

essential_dirs == {"crypto_kem", "crypto_sign", "common"}
\* the names below the output directory: the essential ones, what was there
\* before the run ("old"), the downloaded archive and the temp directory
OutputNames == essential_dirs \cup {"old", "archive", "temp"}
Kinds == {"absent", "file", "dir"}
NothingBelow == [name \in OutputNames |-> "absent"]
\* the output path: nothing, a regular file, or a directory with entries
NoOutput == [kind |-> "absent", items |-> NothingBelow]
FileOutput == [kind |-> "file", items |-> NothingBelow]
DirOutput(items) == [kind |-> "dir", items |-> items]

\* What the archive unpacks to: top is the PQClean-<ref> entry below temp
\* (none, a file, a directory), items the entries in that directory.
Archive(top, items) == [top |-> top, items |-> items]
NoItems == [name \in essential_dirs |-> "absent"]
Archives ==
    {Archive("none", NoItems), Archive("file", NoItems), Archive("dir", NoItems),
     Archive("dir", [name \in essential_dirs |-> "dir"]),
     Archive("dir", [name \in essential_dirs |->
                       IF name = "common" THEN "absent" ELSE "dir"]),
     Archive("dir", [name \in essential_dirs |->
                       IF name = "common" THEN "file" ELSE "dir"])}

\* what a part of download_pqclean leaves: the output path, and either the
\* value returned, or the exception raised, or "on" to go on
PqStep(out, status, value, exc, requested) ==
    [out |-> out, status |-> status, value |-> value, exc |-> exc,
     requested |-> requested]

\* lines 103-115: every essential name exists below the output directory
verify_dirs(out) ==
    PqStep(out, "returned", \A name \in essential_dirs : out.items[name] # "absent",
           "", 1)

\* lines 85-99: the entries of the extracted directory are moved to the
\* output directory, temp and the archive file are removed
move_contents(out, archive) ==
    DirOutput([name \in OutputNames |->
                 IF name \in essential_dirs /\ archive.items[name] # "absent"
                 THEN archive.items[name]
                 ELSE IF name \in {"temp", "archive"} THEN "absent"
                 ELSE out.items[name]])

\* lines 79-85: the search for PQClean-* below temp; iterdir() of a match
\* that is no directory raises
find_extracted(out, archive) ==
    IF archive.top = "none" THEN PqStep(out, "returned", FALSE, "", 1)
    ELSE IF archive.top = "file"
    THEN PqStep(out, "raised", FALSE, "NotADirectoryError", 1)
    ELSE verify_dirs(move_contents(out, archive))

\* lines 72-77: temp is created and the archive extracted into it
extract_archive(out, ex, archive) ==
    IF ex # "ok"
    THEN PqStep(DirOutput([out.items EXCEPT !["temp"] = "dir"]), "returned", FALSE,
                "", 1)
    ELSE find_extracted(DirOutput([out.items EXCEPT !["temp"] = "dir"]), archive)

\* lines 62-69: the output directory is created and the archive downloaded
download_archive(dl, ex, archive) ==
    IF dl = "ok"
    THEN extract_archive(DirOutput([NothingBelow EXCEPT !["archive"] = "file"]), ex, archive)
    ELSE PqStep(DirOutput(NothingBelow), "returned", FALSE, "", 1)

\* Faulty variant of Accepts: the answer compared without lower().
AcceptsLowerCaseOnly(response) == response = "y"

\* line 55: response.lower() != 'y' is false
Accepts(response) == Lower(response) = "y"

PqResult(step, prompted, removed) ==
    [out |-> step.out, status |-> step.status, value |-> step.value,
     exc |-> step.exc, requested |-> step.requested, prompted |-> prompted,
     removed |-> removed]

\* download_pqclean(ref, output_dir, force): response is what input() gives,
\* dl and ex whether the download and the extraction go through, archive
\* what the server sends
download_pqclean(out, force, response, dl, ex, archive) ==
    IF out.kind = "absent"
    THEN PqResult(download_archive(dl, ex, archive), FALSE, FALSE)
    ELSE IF ~force /\ ~Accepts(response)
    THEN PqResult(PqStep(out, "returned", FALSE, "", 0), TRUE, FALSE)
    ELSE IF out.kind = "file"
    THEN PqResult(PqStep(out, "raised", FALSE, "NotADirectoryError", 0), ~force, FALSE)
    ELSE PqResult(download_archive(dl, ex, archive), ~force, TRUE)

\* the output path before the first run
Outputs ==
    {NoOutput, FileOutput, DirOutput(NothingBelow),
     DirOutput([NothingBelow EXCEPT !["old"] = "file"]),
     DirOutput([name \in OutputNames |->
                  IF name \in essential_dirs \cup {"old"} THEN "dir" ELSE "absent"])}
Responses == {"y", "Y", "n", ""}

InitPqclean ==
    /\ cls \in LoaderClasses
    /\ lib = [CRYPTO_BYTES |-> cls.SIGNATURE_BYTES]
    /\ rng = 0
    /\ DriverIdle
    /\ pc = "done"
    /\ ThreadsIdle
    /\ SignIdle
    /\ LoaderIdle
    /\ CacheIdle
    /\ GettersIdle
    /\ \E out \in Outputs : pqclean = [NoPqclean EXCEPT !.out = out]
    /\ BuildIdle

\* a run of download_pqclean
DownloadPqclean ==
    /\ pqclean.runs < MaxRuns
    /\ \E force \in BOOLEAN : \E response \in Responses : \E dl \in {"ok", "refused"} :
       \E ex \in {"ok", "corrupt"} : \E archive \in Archives :
       \E got \in {download_pqclean(pqclean.out, force, response, dl, ex, archive)} :
         pqclean' = [out |-> got.out, runs |-> pqclean.runs + 1,
                     last |-> [op |-> "download_pqclean", before |-> pqclean.out,
                               force |-> force, response |-> response, dl |-> dl,
                               ex |-> ex, archive |-> archive,
                               prompted |-> got.prompted, removed |-> got.removed,
                               requested |-> got.requested, status |-> got.status,
                               value |-> got.value, exc |-> got.exc]]
    /\ UNCHANGED <<notToolVars, loaderVars, getters, build>>

SpecPqclean == InitPqclean /\ [][DownloadPqclean]_vars

\* the run got to the download (the directory was absent or removed)
Fetched == pqclean.last.op = "download_pqclean" /\ pqclean.last.requested = 1
\* C21: download_pqclean returns True only if the output directory then
\* contains crypto_kem, crypto_sign and common as directories; and it
\* returns False whenever the download fails, the extraction fails, no
\* PQClean-* directory was extracted, or one of the three is missing from
\* the directory extracted.
C21_TrueOnlyWithEssentialDirs ==
    LET c == pqclean.last IN
    /\ (c.op = "download_pqclean" /\ c.status = "returned" /\ c.value) =>
         /\ pqclean.out.kind = "dir"
         /\ \A name \in essential_dirs : pqclean.out.items[name] = "dir"
    /\ (Fetched /\ (\/ c.dl # "ok"
                    \/ c.ex # "ok"
                    \/ c.archive.top # "dir"
                    \/ \E name \in essential_dirs : c.archive.items[name] = "absent")) =>
         (c.status = "returned" /\ ~c.value)

\* C22: when the output directory exists and force is False, the run asks
\* and removes the directory only after the answer 'y' or 'Y'; after any
\* other answer it returns False, the directory is as it was and no download
\* was requested. With force=True the directory is removed without asking.
C22_OverwriteConfirmation ==
    LET c == pqclean.last IN
    (c.op = "download_pqclean" /\ c.before.kind = "dir") =>
      IF c.force
      THEN ~c.prompted /\ c.removed /\ pqclean.out.items["old"] = "absent"
      ELSE /\ c.prompted
           /\ IF c.response \in {"y", "Y"}
              THEN c.removed /\ pqclean.out.items["old"] = "absent"
              ELSE /\ ~c.removed
                   /\ c.status = "returned" /\ ~c.value
                   /\ pqclean.out = c.before
                   /\ c.requested = 0
\* a directory with a file in it was replaced after the answer 'Y'
C22_Witness ==
    /\ pqclean.last.op = "download_pqclean"
    /\ pqclean.last.before.kind = "dir"
    /\ pqclean.last.before.items["old"] = "file"
    /\ ~pqclean.last.force
    /\ pqclean.last.response = "Y"
    /\ pqclean.last.status = "returned" /\ pqclean.last.value
    /\ pqclean.out.items["old"] = "absent"

\* --------------------------------------------- scripts/build_native.py
\* The number of .c files found in the PQClean source at most.
MaxSources == 2

\* run_command(cmd): the command exits with 0, exits with another status
\* (CalledProcessError, caught), or cannot be started (FileNotFoundError
\* from subprocess.run, not caught)
CommandOutcomes == {"ok", "failed", "not_started"}
Ran(cmd, outcome) == [cmd |-> cmd, outcome |-> outcome]

\* the call has ended with a value, or with an exception
BuildReturns(b, value) == [b EXCEPT !.pc = "done", !.status = "returned", !.value = value]
BuildRaises(b, exc) == [b EXCEPT !.pc = "done", !.status = "raised", !.exc = exc]

\* what run_command makes of a command's outcome for a caller that returns
\* False when it gives False and goes on to pc when it gives True
run_command(b, cmd, outcome, next) ==
    IF outcome = "ok"
    THEN [b EXCEPT !.pc = next, !.log = Append(@, Ran(cmd, outcome))]
    ELSE IF outcome = "failed"
    THEN BuildReturns([b EXCEPT !.log = Append(@, Ran(cmd, outcome))], FALSE)
    ELSE BuildRaises([b EXCEPT !.log = Append(@, Ran(cmd, outcome))],
                     "FileNotFoundError")

\* build_native_windows is called: the target platform, the PQClean source
\* (missing, without algorithm directories, or with found .c files), and
\* whether bins/<target>/pqc.dll is there from an earlier build
InitBuild ==
    /\ cls \in LoaderClasses
    /\ lib = [CRYPTO_BYTES |-> cls.SIGNATURE_BYTES]
    /\ rng = 0
    /\ DriverIdle
    /\ pc = "done"
    /\ ThreadsIdle
    /\ SignIdle
    /\ LoaderIdle
    /\ CacheIdle
    /\ GettersIdle
    /\ PqcleanIdle
    /\ \E target \in {"windows-x64", "windows-x86", "linux-x86_64"} :
       \E source \in {"missing", "empty", "sources"} :
       \E found \in 0 .. MaxSources : \E dll \in BOOLEAN :
         /\ source # "sources" => found = 0
         /\ build = [NoBuild EXCEPT !.pc = "start", !.target = target,
                                    !.source = source, !.found = found, !.dll = dll]

\* lines 30-216: the checks, the collection of the source files, the
\* wrapper file added to them
Prepare ==
    /\ build.pc = "start"
    /\ build' = IF build.source = "missing" THEN BuildReturns(build, FALSE)
                ELSE IF build.target \notin {"windows-x64", "windows-x86"}
                THEN BuildReturns(build, FALSE)
                ELSE IF build.source = "empty" THEN BuildReturns(build, FALSE)
                ELSE [build EXCEPT !.pc = "compile", !.n = build.found + 1]
    /\ UNCHANGED <<notToolVars, loaderVars, getters, pqclean>>

\* lines 223-252: the next source file is compiled
Compile ==
    /\ build.pc = "compile"
    /\ \E outcome \in CommandOutcomes :
         build' = run_command(build, "cl.exe", outcome,
                              IF Len(build.log) + 1 = build.n THEN "link" ELSE "compile")
    /\ UNCHANGED <<notToolVars, loaderVars, getters, pqclean>>

\* lines 256-298: the link command, the test of its success and of the DLL
Link ==
    /\ build.pc = "link"
    /\ \E outcome \in CommandOutcomes : \E written \in BOOLEAN :
       \E ran \in {run_command(build, "link.exe", outcome, "linked")} :
         build' = IF ran.pc # "linked" THEN ran
                  ELSE BuildReturns([ran EXCEPT !.dll = written], written)
    /\ UNCHANGED <<notToolVars, loaderVars, getters, pqclean>>

NextBuild == Prepare \/ Compile \/ Link
SpecBuild == InitBuild /\ [][NextBuild]_vars

\* C23: the link command runs only after every source file has compiled
\* successfully; the first compile failure ends the call with the value
\* False and no link command; and the call returns True only when the link
\* command succeeded and the DLL exists.
C23_BuildOrdering ==
    /\ \A i \in 1 .. Len(build.log) :
         build.log[i].cmd = "link.exe" =>
           /\ i = build.n + 1
           /\ \A j \in 1 .. i - 1 : build.log[j] = Ran("cl.exe", "ok")
    /\ \A i \in 1 .. Len(build.log) :
         (build.log[i].cmd = "cl.exe" /\ build.log[i].outcome # "ok") =>
           /\ i = Len(build.log)
           /\ build.pc = "done" /\ build.status = "returned" /\ ~build.value
    /\ (build.pc = "done" /\ build.status = "returned" /\ build.value) =>
         /\ build.log[Len(build.log)] = Ran("link.exe", "ok")
         /\ build.dll

============================================================================
